---- MODULE Spec2Model ----
(***************************************************************************)
(* Model of the Exchange <-> Booking synchronisation engine (package main, *)
(* conf, booking, ews).  One collection task and one subscription task per *)
(* enabled configuration share the process-wide mutex `mu`, the identity   *)
(* store and the two remote systems (Exchange, Booking service), which are *)
(* modelled as environment state with nondeterministic answers.            *)
(***************************************************************************)
EXTENDS Integers, Sequences, FiniteSets, TLC

\* ------------------------------------------------------------------ bounds
MaxUID == 2          \* calendar events Exchange ever hands out a UID for
MaxGid == 2          \* downstream booking groups the Booking service creates
MaxFeed == 3         \* changes a room calendar accumulates
\* What the environment may do in one run, per specification: WebSocket
\* messages delivered, actions of Exchange users (create / change / cancel from
\* Outlook), failures of a remote call or of the database.
MaxMsgs == 1           \* Spec
MaxExt == 1
MaxFaults == 1
CreateMsgs == 1        \* SpecCreate
CreateFaults == 1
RedeliveryMsgs == 2    \* SpecRedelivery
RedeliveryFaults == 1
SyncExt == 2           \* SpecSync
SyncFaults == 1
TwoMsgs == 1           \* SpecTwo
TwoExt == 1
TwoFaults == 1
\* SpecSeries: recurring meetings of up to MaxInst instances
MaxInst == 3
SeriesExt == 3
SeriesFaults == 0
\* Changes one SyncFolderItems response carries (256 in the request, scaled):
\* WholeFeed is more than a room calendar ever accumulates in a run, DrainChunk
\* is less than SpecDrain's users produce.
WholeFeed == 8
DrainChunk == 1        \* SpecDrain
DrainExt == 2
\* Re-subscription runs: discoveries that create assets, failing calls.
ResubDisc == 2
ResubFaults == 1
\* Runs with a configuration that lacks credentials.
InvalidExt == 1
InvalidFaults == 1
\* Runs in which rooms leave the room list.
RoomsExt == 1
RoomsFaults == 1
RoomsDisc == 1
\* Runs in which occurrences of a pushed series are cancelled downstream.
OccurrenceMsgs == 1
OccurrenceExt == 1
OccurrenceFaults == 1
\* Answers of Exchange in one expansion of a recurring master.
MaxAnswers == 4
\* Inputs of conf.UpsertBooking on its own: downstream booking ids and
\* instance indices.
MaxBookingId == 3
MaxIndex == 2
\* Runs of the listener in detail.
ListenMsgs == 1
ListenFaults == 1
ListenDisc == 2
\* Runs of the two-step push next to the subscription.
PushMsgs == 1
PushExt == 1
PushFaults == 0

\* The configuration table and the asset table (room assets with a downstream
\* asset id and a provider id).
Configs == {1, 2}
Assets == {1, 2}
NumAssets == Cardinality(Assets)
\* asset.configuration_id: each configuration has discovered one room.
ConfigurationOf(a) == a
UIDs == 1..MaxUID
Gids == 1..MaxGid

\* ------------------------------------------------------------- constants
ServiceUserUPN == "svc@x.test"
Organizers == {"alice@x.test", ""}

\* make(chan struct{}, 1)
ChannelCapacity == 1

NoTask == <<"none", 0>>
Collection(c) == <<"collection", c>>
Subscription(c) == <<"subscription", c>>

NoItem == <<0, 0, 0>>
\* The ItemId of event u (instance k, 0 for a singleton) in room a's mailbox.
ItemId(u, a, k) == <<u, a, k>>

VARIABLES
    enabled,            \* configurations with Enable = true
    credentialed,       \* configurations with a complete OAuth or NTLM set
    roomList,           \* rooms Exchange lists in the configured room list
    lim,                \* what the environment may still do in this run
    crashed,            \* the process died on an unrecovered panic
    mu,                 \* holder of the Exchange mutex, NoTask when unlocked
    \* ---- collection task of each configuration (collectResources)
    collPc, collIdx, collLoc, toBook, cancelledBookings,
    inHand,             \* the group whose POST has returned, until it is recorded
    postedGids,         \* downstream group ids returned to a collection pass
    \* ---- subscription task of each configuration (listenForBookings)
    subPc, cur, h,
    \* ---- identity store
    syncState, store,
    \* ---- Exchange
    ev, roomItems, invites, feed, nextUID,
    \* ---- Booking service
    bk, nextGid,
    \* ---- re-subscription (resubscribeTrigger and the goroutines reading it)
    resubscribeTrigger, \* signals buffered in the channel
    listening,          \* the live subscription's goroutine still waits on it
    stale,              \* waiting goroutines of subscriptions that have exited
    ctxCancelled,       \* cancel() was called on the live subscription's context
    missing,            \* discovered assets the live subscription does not watch
    lsn,                \* booking.ListenForBookings: reader, read helper, stream
    \* ---- calls of helper functions followed step by step
    xp,                 \* ews.expandRecurrence: answers, index, items, result
    \* ---- run bookkeeping
    msgCount, extCount, faults, discCount,
    consumed, pushed, dropped

vars == <<xp, enabled, credentialed, roomList, inHand, postedGids, lim, crashed, mu, collPc, collIdx, collLoc,
          toBook, cancelledBookings, subPc, cur, h, syncState, store, ev,
          roomItems, invites, feed, nextUID, bk, nextGid, resubscribeTrigger,
          listening, stale, ctxCancelled, missing, lsn, msgCount, extCount,
          faults, discCount, consumed, pushed, dropped>>

collVars == <<collPc, collIdx, collLoc, toBook, cancelledBookings>>
subVars == <<subPc, cur, h>>
exVars == <<ev, roomItems, invites, feed, nextUID>>
bkVars == <<bk, nextGid>>
ghostVars == <<consumed, pushed>>
pushVars == <<inHand, postedGids>>
resubVars == <<resubscribeTrigger, listening, stale, ctxCancelled, missing,
               lsn, discCount, dropped>>

\* ------------------------------------------------------------- sequences
RECURSIVE SetToSeq(_)
SetToSeq(S) == IF S = {} THEN <<>>
               ELSE LET m == CHOOSE x \in S : \A y \in S : x <= y
                    IN <<m>> \o SetToSeq(S \ {m})

Range(s) == {s[i] : i \in 1..Len(s)}

RECURSIVE SelectSeqBy(_, _)
\* the elements of s at the positions of index set I, in order
SelectSeqBy(s, I) == IF I = {} THEN <<>>
                     ELSE LET m == CHOOSE x \in I : \A y \in I : x <= y
                          IN <<s[m]>> \o SelectSeqBy(s, I \ {m})


\* --------------------------------------------------------- identity store
NoGroup == [present |-> FALSE, org |-> "", egid |-> 0]
EmptyStore == [groups |-> {}, occurrences |-> {}, roomBookings |-> {}]

\* The booking_group row with exchange_uid u (NoGroup when there is none).
GroupOf(st, u) ==
    LET rows == {r \in st.groups : r.uid = u}
    IN IF rows = {} THEN NoGroup
       ELSE LET r == CHOOSE x \in rows : TRUE
            IN [present |-> TRUE, org |-> r.org, egid |-> r.egid]

\* conf.GetBookingGroupByExchangeUID: the uid when a row exists, else 0
\* (conf.ErrNotFound).
GetBookingGroupByExchangeUID(st, u) ==
    IF \E r \in st.groups : r.uid = u THEN u ELSE 0

\* conf.GetBookingGroupByElionaID (eliona_group_id is UNIQUE).
GetBookingGroupByElionaID(st, g) ==
    LET S == {r.uid : r \in {x \in st.groups : x.egid = g}}
    IN IF S = {} THEN 0 ELSE CHOOSE u \in S : TRUE

\* conf.GetBookingGroupByExchangeID: join room_booking -> occurrence -> group.
GetBookingGroupByExchangeID(st, item) ==
    LET S == {r \in st.roomBookings : r.item = item}
    IN IF S = {} THEN 0 ELSE (CHOOSE r \in S : TRUE).uid

\* conf.GetBookingOccurrenceByGroupAndIndex: the set holding the row, or {}.
GetBookingOccurrenceByGroupAndIndex(st, u, idx) ==
    {o \in st.occurrences : o.uid = u /\ o.idx = idx}

\* conf.GetBookingOccurrenceByElionaID (eliona_booking_id is UNIQUE).
GetBookingOccurrenceByElionaID(st, eid) ==
    {o \in st.occurrences : o.eid = eid}

\* conf.GetBookingOccurrencesByGroupID, rows in ascending instance index.
GetBookingOccurrencesByGroupID(st, u) ==
    LET rows == {o \in st.occurrences : o.uid = u}
        idxs == SetToSeq({o.idx : o \in rows})
    IN [i \in 1..Len(idxs) |-> CHOOSE o \in rows : o.idx = idxs[i]]

\* conf.GetBookingOccurrencesByGroupIDWithoutExceptions.
GetBookingOccurrencesByGroupIDWithoutExceptions(st, u, except) ==
    LET rows == {o \in st.occurrences : o.uid = u /\ o.idx \notin except}
        idxs == SetToSeq({o.idx : o \in rows})
    IN [i \in 1..Len(idxs) |-> CHOOSE o \in rows : o.idx = idxs[i]]

\* A room_booking statement that does nothing whether or not the id is stored.
SkipRoomBooking(rbs, item, u, idx) == rbs

\* A room_booking upsert that re-attaches a stored id to the new occurrence.
MoveRoomBooking(rbs, item, u, idx) ==
    {r \in rbs : r.item # item} \cup {[item |-> item, uid |-> u, idx |-> idx]}

\* One room_booking upsert: ON CONFLICT (exchange_id) DO NOTHING.
UpsertRoomBooking(rbs, item, u, idx) ==
    IF \E r \in rbs : r.item = item THEN rbs
    ELSE rbs \cup {[item |-> item, uid |-> u, idx |-> idx]}

RECURSIVE UpsertRoomBookings(_, _, _, _)
UpsertRoomBookings(rbs, seq, u, idx) ==
    IF seq = <<>> THEN rbs
    ELSE UpsertRoomBookings(UpsertRoomBooking(rbs, Head(seq).ExchangeID, u, idx),
                            Tail(seq), u, idx)

\* One booking_occurrence upsert: ON CONFLICT (group, index) update the
\* downstream id only.
UpsertOccurrence(occs, u, idx, eid) ==
    IF \E o \in occs : o.uid = u /\ o.idx = idx
    THEN {IF o.uid = u /\ o.idx = idx THEN [o EXCEPT !.eid = eid] ELSE o : o \in occs}
    ELSE occs \cup {[uid |-> u, idx |-> idx, eid |-> eid]}

\* eliona_booking_id is UNIQUE: another row already carries this id.
OccurrenceUniqueViolation(occs, u, idx, eid) ==
    \E o \in occs : o.eid = eid /\ ~(o.uid = u /\ o.idx = idx)

\* eliona_group_id is UNIQUE: another group already carries this id.
GroupUniqueViolation(groups, u, egid) ==
    \E r \in groups : r.uid # u /\ r.egid = egid

\* A plain INSERT without the conflict target on exchange_uid.
InsertGroup(groups, u, org, egid) ==
    groups \cup {[uid |-> u, org |-> org, egid |-> egid]}

\* One booking_group upsert: ON CONFLICT (exchange_uid) update the downstream
\* group id only; the organizer mailbox is written on insert only.
UpsertGroup(groups, u, org, egid) ==
    IF \E r \in groups : r.uid = u
    THEN {IF r.uid = u THEN [r EXCEPT !.egid = egid] ELSE r : r \in groups}
    ELSE groups \cup {[uid |-> u, org |-> org, egid |-> egid]}

RECURSIVE UpsertOccurrences(_, _, _, _)
UpsertOccurrences(st, u, occSeq, failAt) ==
    IF occSeq = <<>> THEN [store |-> st, err |-> FALSE]
    ELSE LET o == Head(occSeq) IN
         IF failAt = "occurrence"
            \/ OccurrenceUniqueViolation(st.occurrences, u, o.InstanceIndex, o.ElionaID)
         THEN [store |-> st, err |-> TRUE]
         ELSE LET st1 == [st EXCEPT !.occurrences =
                              UpsertOccurrence(@, u, o.InstanceIndex, o.ElionaID)]
              IN IF failAt = "roomBooking" /\ o.RoomBookings # <<>>
                 THEN [store |-> st1, err |-> TRUE]
                 ELSE UpsertOccurrences(
                          [st1 EXCEPT !.roomBookings =
                               UpsertRoomBookings(@, o.RoomBookings, u, o.InstanceIndex)],
                          u, Tail(occSeq), "none")

\* conf.UpsertBooking: group, then each occurrence, then its room bookings,
\* every statement committed on its own.  failAt names the statement the
\* database rejects ("none": only the UNIQUE constraints can reject).
UpsertFailures == {"none", "group", "occurrence", "roomBooking"}
UpsertBooking(st, group, failAt) ==
    IF failAt = "group"
       \/ GroupUniqueViolation(st.groups, group.ExchangeUID, group.ElionaID)
    THEN [store |-> st, err |-> TRUE]
    ELSE UpsertOccurrences(
             [st EXCEPT !.groups = UpsertGroup(@, group.ExchangeUID,
                                               group.OrganizerEmail, group.ElionaID)],
             group.ExchangeUID, group.Occurrences, failAt)

\* ---------------------------------------------------------------- Exchange
\* A calendar event: `last` is 0 for a single item and the number of instance
\* positions (1..last) for a RecurringMaster; `deleted` holds the instance
\* indices removed from the recurrence.
NoEvent == [state |-> "none", org |-> "", by |-> 0, last |-> 0, deleted |-> {}]

\* The changes of room a's calendar folder after cookie s, as Exchange reports
\* them: an item created and deleted after s is not reported at all, an item
\* created after s is reported once as Create, a deleted one as Delete.
MaxChangesReturned == lim.chunk
\* The items changed in room calendar f between cookie s and cookie t.
ChangedItems(f, s, t) == {f[i].uid : i \in (s + 1)..t}
\* The cookie Exchange returns with the response to a request with cookie s:
\* it advances as far as MaxChangesReturned changed items allow.
NextSyncState(f, s) ==
    CHOOSE t \in s..Len(f) :
        /\ Cardinality(ChangedItems(f, s, t)) <= MaxChangesReturned
        /\ \/ t = Len(f)
           \/ Cardinality(ChangedItems(f, s, t + 1)) > MaxChangesReturned
IncludesLastItemInRange(f, s) == NextSyncState(f, s) = Len(f)
Window(f, s) == (s + 1)..NextSyncState(f, s)
HasKind(f, s, kind, u) == \E i \in Window(f, s) : f[i].kind = kind /\ f[i].uid = u
Creates(f, s) ==
    SelectSeqBy(f, {i \in Window(f, s) : f[i].kind = "Create"
                                          /\ ~HasKind(f, s, "Delete", f[i].uid)})
Updates(f, s) ==
    SelectSeqBy(f, {i \in Window(f, s) :
                        /\ f[i].kind = "Update"
                        /\ ~HasKind(f, s, "Delete", f[i].uid)
                        /\ ~HasKind(f, s, "Create", f[i].uid)
                        /\ \A j \in Window(f, s) :
                              (j < i /\ f[j].kind = "Update") => f[j].uid # f[i].uid})
Deletes(f, s) ==
    SelectSeqBy(f, {i \in Window(f, s) : f[i].kind = "Delete"
                                          /\ ~HasKind(f, s, "Create", f[i].uid)})

\* ews.expandRecurrence: GetItem for instance index 1, 2, ... until Exchange
\* answers OutOfRecurrenceRange; an index deleted from the recurrence is
\* skipped; each returned item gets InstanceIndex = the index asked for.
RECURSIVE expandRecurrence(_, _)
expandRecurrence(e, instanceIndex) ==
    IF instanceIndex > e.last THEN <<>>
    ELSE IF instanceIndex \in e.deleted THEN expandRecurrence(e, instanceIndex + 1)
    ELSE <<instanceIndex>> \o expandRecurrence(e, instanceIndex + 1)

\* ews.expandRecurrence followed request by request.  Exchange's answers to
\* GetItem on OccurrenceItemId(master, InstanceIndex) are the script `answers`
\* (position i: the answer to index i); past the end of the script Exchange
\* answers ErrorCalendarOccurrenceIndexIsOutOfRecurrenceRange.
ExpandAnswers == {"Success", "Deleted", "OutOfRange", "Error", "Fault"}
NoExpansion == [answers |-> <<>>, instanceIndex |-> 0, requested |-> <<>>,
                items |-> <<>>, state |-> "none"]
AnswerTo(x, i) == IF i <= Len(x.answers) THEN x.answers[i] ELSE "OutOfRange"
\* An iteration that takes a deleted occurrence for a returned item.
expandRecurrenceKeepsDeleted(x) ==
    LET i == x.instanceIndex + 1
        answer == AnswerTo(x, i)
        y == [x EXCEPT !.instanceIndex = i, !.requested = Append(@, i)]
    IN IF answer = "OutOfRange" THEN [y EXCEPT !.state = "ok"]
       ELSE IF answer \in {"Success", "Deleted"}
       THEN [y EXCEPT !.items = Append(@, i)]
       ELSE [y EXCEPT !.items = <<>>, !.state = "err"]
\* One iteration of the loop of expandRecurrence: instanceIndex++, GetItem,
\* then by the answer: a transport error or SOAP fault and any response that
\* is not Success return (nil, err); out of range ends the loop; a deleted
\* occurrence is skipped; a returned item gets item.InstanceIndex =
\* instanceIndex and is appended.
expandRecurrenceIteration(x) ==
    LET i == x.instanceIndex + 1
        answer == AnswerTo(x, i)
        y == [x EXCEPT !.instanceIndex = i, !.requested = Append(@, i)]
    IN IF answer = "Fault" THEN [y EXCEPT !.items = <<>>, !.state = "err"]
       ELSE IF answer = "OutOfRange" THEN [y EXCEPT !.state = "ok"]
       ELSE IF answer = "Deleted" THEN y
       ELSE IF answer # "Success" THEN [y EXCEPT !.items = <<>>, !.state = "err"]
       ELSE [y EXCEPT !.items = Append(@, i)]

\* The instance indices of the items a Create/Update change stands for: the
\* item itself (InstanceIndex zero value) unless it is a RecurringMaster.
ItemsOf(e) == IF e.last = 0 THEN <<0>> ELSE expandRecurrence(e, 1)

\* The syncmodel.BookingGroup GetRoomAppointments builds from one calendar
\* item of room a: one occurrence per item, each with one RoomBooking
\* carrying that item's own id.
GroupFromItem(a, u, e) ==
    LET items == ItemsOf(e) IN
    [ElionaID |-> 0, ExchangeUID |-> u, OrganizerEmail |-> e.org,
     Occurrences |-> [i \in 1..Len(items) |->
                        [ElionaID |-> 0, InstanceIndex |-> items[i],
                         Cancelled |-> FALSE,
                         RoomBookings |-> << [AssetID |-> a,
                                              ExchangeID |-> ItemId(u, a, items[i])] >>]]]

\* ews.GetRoomAppointments(assetID, roomEmail, syncState) for each answer of
\* Exchange: a transport error and a SOAP fault return the error with the old
\* cookie; an error response message (ResponseClass="Error", no SyncState
\* element) is decoded as an empty change list with an empty new cookie.
ExchangeAnswers == {"ok", "transportError", "soapFault", "errorResponse"}
GetRoomAppointments(a, f, events, s, answer) ==
    IF answer \in {"transportError", "soapFault"}
    THEN [new |-> <<>>, updated |-> <<>>, cancelled |-> <<>>,
          newSyncState |-> s, err |-> TRUE]
    ELSE IF answer = "errorResponse"
    THEN [new |-> <<>>, updated |-> <<>>, cancelled |-> <<>>,
          newSyncState |-> 0, err |-> FALSE]
    ELSE LET cr == Creates(f, s)
             up == Updates(f, s)
             de == Deletes(f, s)
         IN [new |-> [i \in 1..Len(cr) |->
                         GroupFromItem(a, cr[i].uid, events[cr[i].uid])],
             updated |-> [i \in 1..Len(up) |->
                         GroupFromItem(a, up[i].uid, events[up[i].uid])],
             cancelled |-> [i \in 1..Len(de) |-> ItemId(de[i].uid, a, 0)],
             newSyncState |-> NextSyncState(f, s), err |-> FALSE]


\* ------------------------------------------------ sync engine (collection)
RECURSIVE AssignOccurrenceIDs(_, _, _, _)
\* The loop of assignElionaIDs over a.Occurrences from position i: copies the
\* stored downstream id into each occurrence until one has no stored row.
AssignOccurrenceIDs(st, u, occs, i) ==
    IF i > Len(occs) THEN [occs |-> occs, included |-> {}, complete |-> TRUE]
    ELSE LET rows == GetBookingOccurrenceByGroupAndIndex(st, u, occs[i].InstanceIndex) IN
         IF rows = {} THEN [occs |-> occs, included |-> {}, complete |-> FALSE]
         ELSE LET r == CHOOSE x \in rows : TRUE
                  rest == AssignOccurrenceIDs(st, u, [occs EXCEPT ![i].ElionaID = r.eid], i + 1)
              IN [rest EXCEPT !.included = @ \cup {r.idx}]

\* assignElionaIDs without its database-error exits (those are outcomes of the
\* action that calls it).  Every stored row has a valid downstream id
\* (UpsertBooking writes null.Int32From), so the !Valid exits are not taken.
assignElionaIDs(st, a) ==
    LET u == GetBookingGroupByExchangeUID(st, a.ExchangeUID) IN
    IF u = 0 THEN a
    ELSE LET r == AssignOccurrenceIDs(st, u, a.Occurrences, 1) IN
         IF ~r.complete THEN [a EXCEPT !.Occurrences = r.occs]
         ELSE LET canc == GetBookingOccurrencesByGroupIDWithoutExceptions(st, u, r.included)
              IN [a EXCEPT !.ElionaID = GroupOf(st, u).egid,
                           !.Occurrences = r.occs \o
                               [i \in 1..Len(canc) |->
                                   [ElionaID |-> canc[i].eid, InstanceIndex |-> 0,
                                    Cancelled |-> TRUE, RoomBookings |-> <<>>]]]

\* toBook[a.ExchangeUID] = a, or the position-wise merge of the room bookings
\* into the group already collected for the UID.
MergeIntoToBook(tb, a) ==
    IF ~\E g \in tb : g.ExchangeUID = a.ExchangeUID THEN tb \cup {a}
    ELSE LET ex == CHOOSE g \in tb : g.ExchangeUID = a.ExchangeUID
             merged == [ex EXCEPT !.Occurrences =
                          [i \in 1..Len(ex.Occurrences) |->
                              [ex.Occurrences[i] EXCEPT !.RoomBookings =
                                  @ \o a.Occurrences[i].RoomBookings]]]
         IN (tb \ {ex}) \cup {merged}

\* a.Occurrences[i] is indexed past its end: the merge panics.
MergePanics(tb, a) ==
    \E ex \in tb : ex.ExchangeUID = a.ExchangeUID
                   /\ Len(ex.Occurrences) > Len(a.Occurrences)

RECURSIVE CollectGroups(_, _, _)
\* the `for i := range updated` / `for i := range new` loops
CollectGroups(st, tb, groups) ==
    IF groups = <<>> THEN tb
    ELSE CollectGroups(st, MergeIntoToBook(tb, assignElionaIDs(st, Head(groups))),
                       Tail(groups))

RECURSIVE CollectPanics(_, _, _)
CollectPanics(st, tb, groups) ==
    IF groups = <<>> THEN FALSE
    ELSE LET a == assignElionaIDs(st, Head(groups)) IN
         IF MergePanics(tb, a) THEN TRUE
         ELSE CollectPanics(st, MergeIntoToBook(tb, a), Tail(groups))

RECURSIVE CancelInEveryRoom(_, _, _)
\* A loop that queues, for every stored occurrence of the owning group, a
\* cancellation for each room asset instead of the reporting room only.
CancelInEveryRoom(st, a, items) ==
    IF items = <<>> THEN <<>>
    ELSE LET u == GetBookingGroupByExchangeID(st, Head(items))
             rows == IF u = 0 THEN <<>> ELSE GetBookingOccurrencesByGroupID(st, u)
             rooms == SetToSeq(Assets)
         IN [i \in 1..(Len(rows) * Len(rooms)) |->
                [AssetID |-> rooms[((i - 1) % Len(rooms)) + 1],
                 ElionaID |-> rows[((i - 1) \div Len(rooms)) + 1].eid]]
            \o CancelInEveryRoom(st, a, Tail(items))

RECURSIVE CollectCancelled(_, _, _)
\* the `for _, cancelledExchangeID := range cancelled` loop for room asset a
CollectCancelled(st, a, items) ==
    IF items = <<>> THEN <<>>
    ELSE LET u == GetBookingGroupByExchangeID(st, Head(items))
             rows == IF u = 0 THEN <<>> ELSE GetBookingOccurrencesByGroupID(st, u)
         IN [i \in 1..Len(rows) |-> [AssetID |-> a, ElionaID |-> rows[i].eid]]
            \o CollectCancelled(st, a, Tail(items))

NoLoc == [new |-> <<>>, updated |-> <<>>, cancelled |-> <<>>, newSyncState |-> 0]

\* where a pass goes after the asset loop / after Book / after CancelSlice
AfterLoop(tb, cb) == IF tb # {} THEN "book" ELSE IF cb # <<>> THEN "cancel" ELSE "idle"

Fault == faults < lim.faults

\* The process is alive: no goroutine has died on an unrecovered panic.
Running == ~crashed

\* A send that queues behind the signal already buffered.
triggerResubscribeQueued ==
    /\ resubscribeTrigger' = resubscribeTrigger + 1
    /\ UNCHANGED dropped

\* triggerResubscribe: select { case resubscribeTrigger <- struct{}{}: default: }
triggerResubscribe ==
    IF resubscribeTrigger < ChannelCapacity
    THEN /\ resubscribeTrigger' = resubscribeTrigger + 1
         /\ UNCHANGED dropped
    ELSE /\ UNCHANGED resubscribeTrigger
         /\ dropped' = TRUE

\* config.RoomListUPN is set: the pass starts with discoverNewAssets.
HasRoomList == lim.disc > 0

\* common.RunOnceWithParam(collectResources): a new pass starts when none runs.
\* With a room list the pass first discovers assets.
StartCollection(c) ==
    /\ Running
    /\ c \in enabled /\ c \in credentialed /\ collPc[c] = "idle"
    /\ collPc' = [collPc EXCEPT ![c] = IF HasRoomList THEN "discover" ELSE "loop"]
    /\ collIdx' = [collIdx EXCEPT ![c] = 1]
    /\ UNCHANGED <<xp, enabled, credentialed, roomList, pushVars, resubVars, lim, crashed, mu, collLoc,
                   toBook, cancelledBookings, subVars, syncState, store, exVars,
                   bkVars, msgCount, extCount, faults, ghostVars>>

\* discoverNewAssets: GetAssets or CreateAssets may fail (the pass ends); when
\* nothing was created it returns; otherwise the re-subscription is triggered
\* and UpsertAssetData may still fail.
DiscoverNewAssets(c) ==
    /\ Running
    /\ collPc[c] = "discover"
    /\ \/ /\ collPc' = [collPc EXCEPT ![c] = "loop"]
          /\ UNCHANGED <<resubVars, faults>>
       \/ /\ Fault /\ faults' = faults + 1
          /\ collPc' = [collPc EXCEPT ![c] = "idle"]
          /\ UNCHANGED resubVars
       \/ /\ discCount < lim.disc
          /\ triggerResubscribe
          /\ discCount' = discCount + 1
          /\ missing' = [missing EXCEPT ![c] = subPc[c] # "down"]
          /\ \/ /\ collPc' = [collPc EXCEPT ![c] = "loop"]
                /\ UNCHANGED faults
             \/ /\ Fault /\ faults' = faults + 1
                /\ collPc' = [collPc EXCEPT ![c] = "idle"]
          /\ UNCHANGED <<listening, stale, ctxCancelled, lsn>>
    /\ UNCHANGED <<xp, enabled, credentialed, roomList, pushVars, lim, crashed, mu, collIdx, collLoc,
                   toBook, cancelledBookings, subVars, syncState, store, exVars,
                   bkVars, msgCount, extCount, ghostVars>>

\* The next statement of a task of c is a call of ews.NewEWSHelper: the top of
\* collectResources, cancelInEWS, cancelOccurrenceInEWS and createAppointment.
CallsNewEWSHelper(c) ==
    IF c \in enabled /\ collPc[c] = "idle"
    THEN TRUE
    ELSE subPc[c] \in {"cancel", "cancelOccurrence", "create"}

\* ews.NewEWSHelper panics on a configuration without a complete credential
\* set.  The goroutine has no recover, so the process dies.
NewEWSHelperPanic(c) ==
    /\ Running
    /\ c \notin credentialed
    /\ CallsNewEWSHelper(c)
    /\ crashed' = TRUE
    /\ UNCHANGED <<xp, enabled, credentialed, roomList, pushVars, resubVars, lim, mu, collVars, subVars,
                   syncState, store, exVars, bkVars, msgCount, extCount, faults,
                   ghostVars>>

\* A Lock that returns although another task holds the mutex.
LockWithoutWaiting(t) == mu' = t

\* sync.Mutex.Lock by task t: blocks while the mutex is held.
Lock(t) == mu = NoTask /\ mu' = t

\* mu.Lock() at the top of the per-asset section.
LockAsset(c) ==
    /\ Running
    /\ collPc[c] = "loop"
    /\ Lock(Collection(c))
    /\ collPc' = [collPc EXCEPT ![c] = "sync"]
    /\ UNCHANGED <<xp, enabled, credentialed, roomList, pushVars, resubVars, lim, crashed, collIdx, collLoc, toBook, cancelledBookings,
                   subVars, syncState, store, exVars, bkVars, msgCount,
                   extCount, faults, ghostVars>>

\* `return err` inside the per-asset section: the pass ends, its locals are
\* gone, and mu.Unlock() is not executed.
AbortPass(c) ==
    /\ collPc' = [collPc EXCEPT ![c] = "idle"]
    /\ collIdx' = [collIdx EXCEPT ![c] = 1]
    /\ collLoc' = [collLoc EXCEPT ![c] = NoLoc]
    /\ toBook' = [toBook EXCEPT ![c] = {}]
    /\ cancelledBookings' = [cancelledBookings EXCEPT ![c] = <<>>]
    /\ UNCHANGED mu

\* conf.GetSyncState and ewsHelper.GetRoomAppointments.
SyncAsset(c) ==
    /\ Running
    /\ collPc[c] = "sync"
    /\ LET a == collIdx[c] IN
       \/ \* GetSyncState fails
          /\ Fault /\ faults' = faults + 1
          /\ AbortPass(c)
       \/ \E answer \in ExchangeAnswers :
            LET r == GetRoomAppointments(a, feed[a], ev, syncState[a], answer) IN
            /\ answer # "ok" => Fault
            /\ faults' = IF answer = "ok" THEN faults ELSE faults + 1
            /\ IF r.err THEN AbortPass(c)
               ELSE /\ collLoc' = [collLoc EXCEPT ![c] =
                                     [new |-> r.new, updated |-> r.updated,
                                      cancelled |-> r.cancelled,
                                      newSyncState |-> r.newSyncState]]
                    /\ collPc' = [collPc EXCEPT ![c] = "assign"]
                    /\ UNCHANGED <<collIdx, toBook, cancelledBookings, mu>>
    /\ UNCHANGED <<xp, enabled, credentialed, roomList, pushVars, resubVars, lim, crashed, subVars, syncState, store, exVars, bkVars,
                   msgCount, extCount, ghostVars>>

\* The three loops over updated, new and cancelled (identity lookups).
AssignAsset(c) ==
    /\ Running
    /\ collPc[c] = "assign"
    /\ LET a == collIdx[c]
           tb1 == CollectGroups(store, toBook[c], collLoc[c].updated)
           tb2 == CollectGroups(store, tb1, collLoc[c].new)
           panics == \/ CollectPanics(store, toBook[c], collLoc[c].updated)
                     \/ CollectPanics(store, tb1, collLoc[c].new)
       IN
       \/ \* a store lookup fails
          /\ Fault /\ faults' = faults + 1
          /\ collLoc[c].new # <<>> \/ collLoc[c].updated # <<>> \/ collLoc[c].cancelled # <<>>
          /\ AbortPass(c)
          /\ UNCHANGED crashed
       \/ /\ panics
          /\ crashed' = TRUE
          /\ UNCHANGED <<collVars, mu, faults>>
       \/ /\ ~panics
          /\ toBook' = [toBook EXCEPT ![c] = tb2]
          /\ cancelledBookings' = [cancelledBookings EXCEPT ![c] =
                 @ \o CollectCancelled(store, a, collLoc[c].cancelled)]
          /\ collPc' = [collPc EXCEPT ![c] = "persist"]
          /\ UNCHANGED <<collIdx, collLoc, mu, faults, crashed>>
    /\ UNCHANGED <<xp, enabled, credentialed, roomList, pushVars, resubVars, lim, subVars, syncState, store, exVars, bkVars,
                   msgCount, extCount, ghostVars>>

\* The end of the per-asset section without the cookie write.
PersistAssetLater(c) ==
    /\ Running
    /\ collPc[c] = "persist"
    /\ LET a == collIdx[c] IN
       /\ mu' = NoTask
       /\ collLoc' = [collLoc EXCEPT ![c] = NoLoc]
       /\ IF a < NumAssets
          THEN /\ collIdx' = [collIdx EXCEPT ![c] = a + 1]
               /\ collPc' = [collPc EXCEPT ![c] = "loop"]
          ELSE /\ collIdx' = [collIdx EXCEPT ![c] = 1]
               /\ collPc' = [collPc EXCEPT ![c] =
                               AfterLoop(toBook[c], cancelledBookings[c])]
       /\ UNCHANGED <<toBook, cancelledBookings, faults, syncState, consumed>>
    /\ UNCHANGED <<xp, enabled, credentialed, roomList, pushVars, resubVars, lim, crashed, subVars, store, exVars, bkVars,
                   msgCount, extCount, pushed>>

\* conf.PersistSyncState and mu.Unlock() at the end of the per-asset section.
PersistAsset(c) ==
    /\ Running
    /\ collPc[c] = "persist"
    /\ LET a == collIdx[c] IN
       \/ /\ Fault /\ faults' = faults + 1
          /\ AbortPass(c)
          /\ UNCHANGED <<syncState, consumed>>
       \/ /\ syncState' = [syncState EXCEPT ![a] = collLoc[c].newSyncState]
          /\ mu' = NoTask
          /\ consumed' = consumed \cup
                {<<a, g.ExchangeUID>> : g \in Range(collLoc[c].new) \cup Range(collLoc[c].updated)}
          /\ collLoc' = [collLoc EXCEPT ![c] = NoLoc]
          /\ IF a < NumAssets
             THEN /\ collIdx' = [collIdx EXCEPT ![c] = a + 1]
                  /\ collPc' = [collPc EXCEPT ![c] = "loop"]
             ELSE /\ collIdx' = [collIdx EXCEPT ![c] = 1]
                  /\ collPc' = [collPc EXCEPT ![c] =
                                  AfterLoop(toBook[c], cancelledBookings[c])]
          /\ UNCHANGED <<toBook, cancelledBookings, faults>>
    /\ UNCHANGED <<xp, enabled, credentialed, roomList, pushVars, resubVars, lim, crashed, subVars, store, exVars, bkVars,
                   msgCount, extCount, pushed>>


\* ---------------------------------------------------------- Booking service
NoGroupMsg == [ElionaID |-> 0, ExchangeUID |-> 0, OrganizerEmail |-> "",
               Occurrences |-> <<>>]
NoBooking == [state |-> "none", assets |-> {}, reason |-> "", n |-> 0, org |-> ""]
\* Downstream id of the i-th occurrence of downstream group g, and back.
BookingIdOf(g, i) == g + (i - 1) * MaxGid
GroupOfBooking(id) == ((id - 1) % MaxGid) + 1

\* booking.GetAssetIDs over the occurrences that are not cancelled
AssetsOf(group) ==
    UNION {{rb.AssetID : rb \in Range(o.RoomBookings)} :
              o \in {x \in Range(group.Occurrences) : ~x.Cancelled}}
AllAssetsOf(group) ==
    UNION {{rb.AssetID : rb \in Range(o.RoomBookings)} : o \in Range(group.Occurrences)}

\* The group after the ids of the response were copied into it: the group id
\* and, in request order, the id of each occurrence (booking.go:83-88).
BookResponse(g, gid) ==
    [g EXCEPT !.ElionaID = gid,
              !.Occurrences = [i \in 1..Len(g.Occurrences) |->
                  [g.Occurrences[i] EXCEPT !.ElionaID =
                      IF @ # 0 THEN @ ELSE BookingIdOf(gid, i)]]]

\* booking.Book, one iteration of `for _, group := range groups` (the map
\* order is unspecified): POST /bookings/group, copy the returned ids, then
\* conf.UpsertBooking.  The first error ends Book and drops the other groups.
BookGroup(c) ==
    /\ Running
    /\ collPc[c] = "book"
    /\ \E g \in toBook[c] :
       /\ \/ \* the POST fails
             /\ Fault /\ faults' = faults + 1
             /\ toBook' = [toBook EXCEPT ![c] = {}]
             /\ collPc' = [collPc EXCEPT ![c] = AfterLoop({}, cancelledBookings[c])]
             /\ UNCHANGED <<store, bk, nextGid, pushed>>
          \/ \E failAt \in UpsertFailures :
             LET gid == IF g.ElionaID = 0 THEN nextGid ELSE g.ElionaID
                 allCancelled == \A o \in Range(g.Occurrences) : o.Cancelled
                 responded == BookResponse(g, gid)
                 up == UpsertBooking(store, responded, failAt)
             IN
             /\ gid \in Gids
             /\ failAt # "none" => Fault
             /\ faults' = IF failAt = "none" THEN faults ELSE faults + 1
             /\ bk' = [bk EXCEPT ![gid] =
                         [state |-> IF g.ElionaID = 0 THEN "active"
                                    ELSE IF allCancelled THEN "cancelled" ELSE @.state,
                          assets |-> AssetsOf(g),
                          reason |-> IF g.ElionaID # 0 /\ allCancelled THEN "cancelled"
                                     ELSE @.reason,
                          n |-> Cardinality({i \in 1..Len(g.Occurrences) :
                                                ~g.Occurrences[i].Cancelled}),
                          org |-> g.OrganizerEmail]]
             /\ nextGid' = IF g.ElionaID = 0 THEN nextGid + 1 ELSE nextGid
             /\ pushed' = pushed \cup {<<a, g.ExchangeUID>> : a \in AllAssetsOf(g)}
             /\ store' = up.store
             /\ LET rest == IF up.err THEN {} ELSE toBook[c] \ {g} IN
                /\ toBook' = [toBook EXCEPT ![c] = rest]
                /\ collPc' = [collPc EXCEPT ![c] = AfterLoop(rest, cancelledBookings[c])]
    /\ UNCHANGED <<xp, enabled, credentialed, roomList, pushVars, resubVars, lim, crashed, mu, collIdx, collLoc, cancelledBookings,
                   subVars, syncState, exVars, msgCount, extCount, consumed>>

\* The first half of one iteration of booking.Book: POST /bookings/group and
\* the copy of the returned ids into the local group.  conf.UpsertBooking is
\* the next statement; no lock is held, so other tasks run in between.
PostGroup(c) ==
    /\ Running
    /\ collPc[c] = "book"
    /\ \E g \in toBook[c] :
       \/ \* the POST fails
          /\ Fault /\ faults' = faults + 1
          /\ toBook' = [toBook EXCEPT ![c] = {}]
          /\ collPc' = [collPc EXCEPT ![c] = AfterLoop({}, cancelledBookings[c])]
          /\ UNCHANGED <<bk, nextGid, pushed, pushVars>>
       \/ LET gid == IF g.ElionaID = 0 THEN nextGid ELSE g.ElionaID
              allCancelled == \A o \in Range(g.Occurrences) : o.Cancelled
              responded == BookResponse(g, gid)
          IN
          /\ gid \in Gids
          /\ bk' = [bk EXCEPT ![gid] =
                      [state |-> IF g.ElionaID = 0 THEN "active"
                                 ELSE IF allCancelled THEN "cancelled" ELSE @.state,
                       assets |-> AssetsOf(g),
                       reason |-> IF g.ElionaID # 0 /\ allCancelled THEN "cancelled"
                                  ELSE @.reason,
                       n |-> Cardinality({i \in 1..Len(g.Occurrences) :
                                             ~g.Occurrences[i].Cancelled}),
                       org |-> g.OrganizerEmail]]
          /\ nextGid' = IF g.ElionaID = 0 THEN nextGid + 1 ELSE nextGid
          /\ pushed' = pushed \cup {<<a, g.ExchangeUID>> : a \in AllAssetsOf(g)}
          /\ inHand' = [inHand EXCEPT ![c] = responded]
          /\ postedGids' = postedGids \cup {gid}
          /\ collPc' = [collPc EXCEPT ![c] = "record"]
          /\ UNCHANGED <<toBook, faults>>
    /\ UNCHANGED <<xp, enabled, credentialed, roomList, resubVars, lim, crashed, mu,
                   collIdx, collLoc, cancelledBookings, subVars, syncState, store,
                   exVars, msgCount, extCount, consumed>>

\* The second half: conf.UpsertBooking of the group in hand.  An error ends
\* Book and drops the other groups.
RecordGroup(c) ==
    /\ Running
    /\ collPc[c] = "record"
    /\ \E failAt \in UpsertFailures :
       LET up == UpsertBooking(store, inHand[c], failAt)
           rest == IF up.err THEN {}
                   ELSE {x \in toBook[c] : x.ExchangeUID # inHand[c].ExchangeUID}
       IN
       /\ failAt # "none" => Fault
       /\ faults' = IF failAt = "none" THEN faults ELSE faults + 1
       /\ store' = up.store
       /\ toBook' = [toBook EXCEPT ![c] = rest]
       /\ collPc' = [collPc EXCEPT ![c] = AfterLoop(rest, cancelledBookings[c])]
    /\ inHand' = [inHand EXCEPT ![c] = NoGroupMsg]
    /\ UNCHANGED <<xp, enabled, credentialed, roomList, postedGids, resubVars, lim,
                   crashed, mu, collIdx, collLoc, cancelledBookings, subVars,
                   syncState, exVars, bkVars, msgCount, extCount, ghostVars>>

\* booking.CancelSlice, one iteration: GET the occurrence, remove the room,
\* then update it (rooms remain) or DELETE it with reason=cancelled.  The
\* first error ends CancelSlice.
CancelOne(c) ==
    /\ Running
    /\ collPc[c] = "cancel"
    /\ LET b == Head(cancelledBookings[c])
           gid == GroupOfBooking(b.ElionaID)
           remaining == bk[gid].assets \ {b.AssetID}
           rest == Tail(cancelledBookings[c])
       IN
       \/ \* GET, POST or DELETE fails
          /\ Fault /\ faults' = faults + 1
          /\ cancelledBookings' = [cancelledBookings EXCEPT ![c] = <<>>]
          /\ collPc' = [collPc EXCEPT ![c] = "idle"]
          /\ UNCHANGED bk
       \/ \* GET answers 404
          /\ bk[gid].state = "none"
          /\ cancelledBookings' = [cancelledBookings EXCEPT ![c] = <<>>]
          /\ collPc' = [collPc EXCEPT ![c] = "idle"]
          /\ UNCHANGED <<bk, faults>>
       \/ /\ bk[gid].state # "none"
          /\ bk' = [bk EXCEPT ![gid] =
                      IF remaining # {} THEN [@ EXCEPT !.assets = remaining]
                      ELSE [@ EXCEPT !.state = "cancelled", !.assets = {},
                                     !.reason = "cancelled"]]
          /\ cancelledBookings' = [cancelledBookings EXCEPT ![c] = rest]
          /\ collPc' = [collPc EXCEPT ![c] = AfterLoop({}, rest)]
          /\ UNCHANGED faults
    /\ UNCHANGED <<xp, enabled, credentialed, roomList, pushVars, resubVars, lim, crashed, mu, collIdx, collLoc, toBook, subVars,
                   syncState, store, exVars, nextGid, msgCount, extCount, ghostVars>>


\* ------------------------------------------ booking-driven writer (subscription)
NoCur == [group |-> NoGroupMsg, k |-> 0, emails |-> <<>>, resourceEventIDs |-> <<>>]
\* what the handling of the current message has done so far (occCalls: the
\* positions of the occurrences cancelOccurrenceInEWS has been called for;
\* occDeletes: the DeleteItem requests ews.CancelOccurrence has sent)
NoHist == [kind |-> "none", gid |-> 0, attempts |-> 0, orgs |-> <<>>,
           answers |-> <<>>, created |-> {}, result |-> "none", cancelEvents |-> 0,
           delete |-> "", upserted |-> FALSE, occCalls |-> {},
           occDeletes |-> {}, done |-> FALSE]

AssetLists == {SetToSeq(S) : S \in SUBSET Assets}

\* The syncmodel.BookingGroup that booking.ListenForBookings builds from a
\* WebSocket message for downstream group g with n occurrences, those at the
\* positions K cancelled.
GroupFromMessage(g, org, al, n, K) ==
    [ElionaID |-> g, ExchangeUID |-> 0, OrganizerEmail |-> org,
     Occurrences |-> [i \in 1..n |->
        [ElionaID |-> BookingIdOf(g, i), InstanceIndex |-> 0, Cancelled |-> i \in K,
         RoomBookings |-> [j \in 1..Len(al) |->
                              [AssetID |-> al[j], ExchangeID |-> NoItem]]]]]

\* The dispatch of listenForBookings on one received group.
FirstCancelled(group) ==
    LET K == {i \in 1..Len(group.Occurrences) : group.Occurrences[i].Cancelled}
    IN IF K = {} THEN 0 ELSE CHOOSE i \in K : \A j \in K : i <= j
Dispatch(group) ==
    IF Len(group.Occurrences) = 1 /\ group.Occurrences[1].Cancelled THEN "cancelLock"
    ELSE IF FirstCancelled(group) # 0 THEN "occLock"
    ELSE "bookLock"
KindOf(pc) == IF pc = "cancelLock" THEN "cancel"
              ELSE IF pc = "occLock" THEN "cancelOccurrence" ELSE "create"

\* common.RunOnceWithParam(listenForBookings): dial and subscribe.
StartSubscription(c) ==
    /\ Running
    /\ c \in enabled /\ subPc[c] = "down"
    /\ subPc' = [subPc EXCEPT ![c] = "wait"]
    /\ listening' = [listening EXCEPT ![c] = TRUE]
    /\ ctxCancelled' = [ctxCancelled EXCEPT ![c] = FALSE]
    /\ missing' = [missing EXCEPT ![c] = FALSE]
    /\ UNCHANGED <<xp, enabled, credentialed, roomList, pushVars, lsn, lim, crashed, mu, collVars, cur, h,
                   syncState, store, exVars, bkVars, resubscribeTrigger, stale,
                   msgCount, extCount, faults, discCount, ghostVars, dropped>>

\* The goroutine of a subscription that has returned keeps waiting on the
\* channel: nothing cancels its context.
LeaveListener(c) ==
    IF listening[c]
    THEN /\ listening' = [listening EXCEPT ![c] = FALSE]
         /\ stale' = stale + 1
    ELSE UNCHANGED <<listening, stale>>

\* The WebSocket read fails: the stream is closed and listenForBookings returns.
ReadError(c) ==
    /\ Running
    /\ subPc[c] = "wait"
    /\ Fault /\ faults' = faults + 1
    /\ subPc' = [subPc EXCEPT ![c] = "down"]
    /\ LeaveListener(c)
    /\ UNCHANGED <<xp, enabled, credentialed, roomList, pushVars, lsn, lim, crashed, mu, collVars, cur, h,
                   syncState, store, exVars, bkVars, resubscribeTrigger,
                   ctxCancelled, missing, msgCount, extCount, discCount,
                   ghostVars, dropped>>

\* `case <-resubscribeTrigger` in the goroutine of the live subscription of c:
\* it takes the signal and cancels the subscription's context.
ListenerFires(c) ==
    /\ Running
    /\ listening[c] /\ resubscribeTrigger > 0
    /\ resubscribeTrigger' = resubscribeTrigger - 1
    /\ listening' = [listening EXCEPT ![c] = FALSE]
    /\ ctxCancelled' = [ctxCancelled EXCEPT ![c] = TRUE]
    /\ UNCHANGED <<xp, enabled, credentialed, roomList, pushVars, lsn, lim, crashed, mu, collVars, subVars,
                   syncState, store, exVars, bkVars, stale, missing, msgCount,
                   extCount, faults, discCount, ghostVars, dropped>>

\* The same receive in the goroutine of a subscription that has returned: the
\* signal is taken and cancel() acts on a context nobody uses.
StaleListenerFires ==
    /\ Running
    /\ stale > 0 /\ resubscribeTrigger > 0
    /\ resubscribeTrigger' = resubscribeTrigger - 1
    /\ stale' = stale - 1
    /\ UNCHANGED <<xp, enabled, credentialed, roomList, pushVars, lsn, lim, crashed, mu, collVars, subVars,
                   syncState, store, exVars, bkVars, listening, ctxCancelled,
                   missing, msgCount, extCount, faults, discCount, ghostVars,
                   dropped>>

\* ctx.Done() in booking.ListenForBookings: the reader returns, the stream is
\* closed, the range loop ends and listenForBookings returns.
ContextDone(c) ==
    /\ Running
    /\ subPc[c] = "wait" /\ ctxCancelled[c]
    /\ subPc' = [subPc EXCEPT ![c] = "down"]
    /\ UNCHANGED <<xp, enabled, credentialed, roomList, pushVars, resubVars, lim, crashed, mu, collVars,
                   cur, h, syncState, store, exVars, bkVars, msgCount, extCount,
                   faults, ghostVars>>

Deliver(c, group) ==
    /\ cur' = [cur EXCEPT ![c] = [group |-> group, k |-> FirstCancelled(group),
                                  emails |-> <<>>, resourceEventIDs |-> <<>>]]
    /\ subPc' = [subPc EXCEPT ![c] = Dispatch(group)]
    /\ h' = [h EXCEPT ![c] = [NoHist EXCEPT !.kind = KindOf(Dispatch(group)),
                                            !.gid = group.ElionaID]]
    /\ msgCount' = msgCount + 1

\* `for group := range bookingsChan`: the Booking service sends a message about
\* a booking a downstream user has just made, changed or cancelled.
Receive(c) ==
    /\ Running
    /\ subPc[c] = "wait" /\ msgCount < lim.msgs
    /\ \/ \* a downstream booking this listener has not heard of before: a new
          \* one, or one whose first occurrence is already cancelled
          \E org \in Organizers, al \in AssetLists, n \in {1, 2}, K \in {{}, {1}} :
            /\ n = 2 => (org = "" /\ Len(al) = 1)
            /\ nextGid \in Gids
            /\ bk' = [bk EXCEPT ![nextGid] =
                        [state |-> IF K = 1..n THEN "cancelled" ELSE "active",
                         assets |-> Range(al),
                         reason |-> IF K = 1..n THEN "user" ELSE "",
                         n |-> n, org |-> org]]
            /\ nextGid' = nextGid + 1
            /\ Deliver(c, GroupFromMessage(nextGid, org, al, n, K))
       \/ \* an update or a re-delivery of an active booking
          \E g \in Gids :
            /\ bk[g].state = "active"
            /\ Deliver(c, GroupFromMessage(g, bk[g].org, SetToSeq(bk[g].assets),
                                           bk[g].n, {}))
            /\ UNCHANGED <<bk, nextGid>>
       \/ \* a cancellation of some occurrences of an active booking
          \E g \in Gids :
            /\ bk[g].state = "active"
            /\ \E K \in SUBSET (1..bk[g].n) :
                 /\ K # {}
                 /\ bk' = [bk EXCEPT ![g] =
                             IF K = 1..bk[g].n
                             THEN [@ EXCEPT !.state = "cancelled", !.reason = "user"]
                             ELSE @]
                 /\ Deliver(c, GroupFromMessage(g, bk[g].org, SetToSeq(bk[g].assets),
                                                bk[g].n, K))
            /\ UNCHANGED nextGid
    /\ UNCHANGED <<xp, enabled, credentialed, roomList, pushVars, resubVars, lim, crashed, mu, collVars, syncState, store, exVars,
                   extCount, faults, ghostVars>>

\* ------------------------------------- booking.ListenForBookings in detail
\* The reader goroutine (rd), the helper goroutine of its current iteration
\* that sits in conn.ReadMessage (helper), the WebSocket connection (conn),
\* the number of close(bookingsChan) executed (closes), the group the helper
\* has read (msg, err: the read failed) and the helpers the reader has left
\* behind in ReadMessage on a connection that has been closed since (orphans).
NoListener == [rd |-> "none", helper |-> "none", conn |-> "none", closes |-> 0,
               msg |-> NoGroupMsg, err |-> FALSE, orphans |-> 0]

\* Messages read from the WebSocket and not yet handed to the consumer.
InFlight == Cardinality({c \in Configs : lsn[c].msg # NoGroupMsg})

\* The start of one iteration of the reader's loop: a helper goroutine is
\* started on conn.ReadMessage and the reader waits in the select.
NextIteration(l) ==
    [l EXCEPT !.rd = "select", !.helper = "reading", !.msg = NoGroupMsg,
              !.err = FALSE]

\* The reader returns: the deferred conn.Close() and close(bookingsChan) run.
\* A helper still in ReadMessage is left behind.
ReaderReturns(l) ==
    [l EXCEPT !.rd = "returned", !.helper = "none", !.msg = NoGroupMsg,
              !.err = FALSE, !.conn = "closed", !.closes = @ + 1,
              !.orphans = IF l.helper = "reading" THEN @ + 1 ELSE @]

\* listenForBookings up to the range loop: the trigger watcher is started,
\* the WebSocket is dialled and the reader goroutine begins its first
\* iteration.
Subscribe(c) ==
    /\ Running
    /\ c \in enabled /\ subPc[c] = "down"
    /\ subPc' = [subPc EXCEPT ![c] = "wait"]
    /\ listening' = [listening EXCEPT ![c] = TRUE]
    /\ ctxCancelled' = [ctxCancelled EXCEPT ![c] = FALSE]
    /\ missing' = [missing EXCEPT ![c] = FALSE]
    /\ lsn' = [lsn EXCEPT ![c] =
                 NextIteration([NoListener EXCEPT !.conn = "open",
                                                  !.orphans = lsn[c].orphans])]
    /\ UNCHANGED <<xp, enabled, credentialed, roomList, pushVars, lim, crashed, mu, collVars, cur, h,
                   syncState, store, exVars, bkVars, resubscribeTrigger, stale,
                   msgCount, extCount, faults, discCount, ghostVars, dropped>>

\* conn.ReadMessage returns in the helper: the Booking service has sent a
\* message about a downstream booking that is already cancelled, or the read
\* fails; close(done).
HelperReads(c) ==
    /\ Running
    /\ lsn[c].helper = "reading" /\ lsn[c].conn = "open"
    /\ \/ /\ msgCount + InFlight < lim.msgs /\ nextGid \in Gids
          /\ \E org \in Organizers, al \in AssetLists :
               /\ bk' = [bk EXCEPT ![nextGid] =
                           [state |-> "cancelled", assets |-> Range(al),
                            reason |-> "user", n |-> 1, org |-> org]]
               /\ lsn' = [lsn EXCEPT ![c].helper = "done",
                             ![c].msg = GroupFromMessage(nextGid, org, al, 1, {1})]
          /\ nextGid' = nextGid + 1
          /\ UNCHANGED faults
       \/ /\ Fault /\ faults' = faults + 1
          /\ lsn' = [lsn EXCEPT ![c].helper = "done", ![c].err = TRUE]
          /\ UNCHANGED bkVars
    /\ UNCHANGED <<xp, enabled, credentialed, roomList, pushVars, lim, crashed, mu, collVars, subVars,
                   syncState, store, exVars, resubscribeTrigger, listening, stale,
                   ctxCancelled, missing, msgCount, extCount, discCount,
                   ghostVars, dropped>>

\* conn.ReadMessage of a helper left behind returns with an error once the
\* connection is closed; the helper ends.
HelperUnblocked(c) ==
    /\ Running
    /\ lsn[c].orphans > 0
    /\ lsn' = [lsn EXCEPT ![c].orphans = @ - 1]
    /\ UNCHANGED <<xp, enabled, credentialed, roomList, pushVars, lim, crashed, mu, collVars, subVars,
                   syncState, store, exVars, bkVars, resubscribeTrigger, listening,
                   stale, ctxCancelled, missing, msgCount, extCount, faults,
                   discCount, ghostVars, dropped>>

\* `case <-done` of the reader's select: a read error ends the reader, a
\* message goes on to the send on bookingsChan.
ReaderTakesDone(c) ==
    /\ Running
    /\ lsn[c].rd = "select" /\ lsn[c].helper = "done"
    /\ lsn' = [lsn EXCEPT ![c] = IF lsn[c].err THEN ReaderReturns(@)
                                 ELSE [@ EXCEPT !.rd = "send"]]
    /\ UNCHANGED <<xp, enabled, credentialed, roomList, pushVars, lim, crashed, mu, collVars, subVars,
                   syncState, store, exVars, bkVars, resubscribeTrigger, listening,
                   stale, ctxCancelled, missing, msgCount, extCount, faults,
                   discCount, ghostVars, dropped>>

\* `case <-ctx.Done()` of the reader's select: context.Canceled ends the
\* reader.
ReaderTakesCtx(c) ==
    /\ Running
    /\ lsn[c].rd = "select" /\ ctxCancelled[c]
    /\ lsn' = [lsn EXCEPT ![c] = ReaderReturns(@)]
    /\ UNCHANGED <<xp, enabled, credentialed, roomList, pushVars, lim, crashed, mu, collVars, subVars,
                   syncState, store, exVars, bkVars, resubscribeTrigger, listening,
                   stale, ctxCancelled, missing, msgCount, extCount, faults,
                   discCount, ghostVars, dropped>>

\* The rendezvous on the unbuffered bookingsChan: the reader's send meets the
\* receive of `for group := range bookingsChan`; the reader starts its next
\* iteration and the consumer dispatches the group.
ConsumerReceives(c) ==
    /\ Running
    /\ lsn[c].rd = "send" /\ subPc[c] = "wait"
    /\ Deliver(c, lsn[c].msg)
    /\ lsn' = [lsn EXCEPT ![c] = NextIteration(@)]
    /\ UNCHANGED <<xp, enabled, credentialed, roomList, pushVars, lim, crashed, mu, collVars,
                   syncState, store, exVars, bkVars, resubscribeTrigger, listening,
                   stale, ctxCancelled, missing, extCount, faults,
                   discCount, ghostVars, dropped>>

\* The range loop finds bookingsChan closed and listenForBookings returns.
ConsumerReturns(c) ==
    /\ Running
    /\ subPc[c] = "wait" /\ lsn[c].rd = "returned"
    /\ subPc' = [subPc EXCEPT ![c] = "down"]
    /\ LeaveListener(c)
    /\ UNCHANGED <<xp, enabled, credentialed, roomList, pushVars, lsn, lim, crashed, mu, collVars, cur, h,
                   syncState, store, exVars, bkVars, resubscribeTrigger,
                   ctxCancelled, missing, msgCount, extCount, faults, discCount,
                   ghostVars, dropped>>

\* mu.Lock() at the top of cancelInEWS, cancelOccurrenceInEWS and bookInEWS.
LockTarget(pc) == IF pc = "cancelLock" THEN "cancel"
                  ELSE IF pc = "occLock" THEN "cancelOccurrence" ELSE "book"
LockWriter(c) ==
    /\ Running
    /\ subPc[c] \in {"cancelLock", "occLock", "bookLock"}
    /\ Lock(Subscription(c))
    /\ subPc' = [subPc EXCEPT ![c] = LockTarget(subPc[c])]
    /\ UNCHANGED <<xp, enabled, credentialed, roomList, pushVars, resubVars, lim, crashed, collVars, cur, h, syncState, store, exVars,
                   bkVars, msgCount, extCount, faults, ghostVars>>

\* `defer mu.Unlock()` fires, the handler returns and the loop reads on.
Return(c) ==
    /\ mu' = NoTask
    /\ subPc' = [subPc EXCEPT ![c] = "wait"]

\* ews.CancelEvent on Exchange: the meeting is cancelled in the organizer's
\* calendar and removed from every room calendar that holds it.
CancelInExchange(u) ==
    /\ ev' = [ev EXCEPT ![u].state = "cancelled"]
    /\ feed' = [a \in Assets |->
                  IF ItemId(u, a, 0) \in roomItems
                  THEN Append(feed[a], [kind |-> "Delete", uid |-> u])
                  ELSE feed[a]]
    /\ roomItems' = {it \in roomItems : it[1] # u}
    /\ invites' = {iv \in invites : iv[1] # u}
    /\ UNCHANGED nextUID


\* cancelInEWS after the lock: find the group by its downstream id, then
\* ews.CancelEvent; every exit unlocks (defer).
CancelInEWS(c) ==
    /\ Running
    /\ subPc[c] = "cancel" /\ c \in credentialed
    /\ LET u == GetBookingGroupByElionaID(store, cur[c].group.ElionaID) IN
       \/ \* the lookup fails, or finds no group
          /\ \/ Fault /\ faults' = faults + 1
             \/ u = 0 /\ UNCHANGED faults
          /\ h' = [h EXCEPT ![c].done = TRUE]
          /\ UNCHANGED exVars
       \/ \* CancelEvent fails (no such event in the organizer's calendar, fault)
          /\ u # 0
          /\ \/ Fault /\ faults' = faults + 1
             \/ ev[u].state # "live" /\ UNCHANGED faults
          /\ h' = [h EXCEPT ![c].done = TRUE, ![c].cancelEvents = @ + 1]
          /\ UNCHANGED exVars
       \/ /\ u # 0 /\ ev[u].state = "live"
          /\ CancelInExchange(u)
          /\ h' = [h EXCEPT ![c].done = TRUE, ![c].cancelEvents = @ + 1]
          /\ UNCHANGED faults
    /\ Return(c)
    /\ UNCHANGED <<xp, enabled, credentialed, roomList, pushVars, resubVars, lim, crashed, collVars, cur, syncState, store, bkVars,
                   msgCount, extCount, ghostVars>>

\* The Update change Exchange reports for the master item of u in every room
\* calendar holding it.
MasterUpdated(u) ==
    feed' = [a \in Assets |->
               IF ItemId(u, a, 0) \in roomItems
               THEN Append(feed[a], [kind |-> "Update", uid |-> u])
               ELSE feed[a]]

\* Exchange's answer to DeleteItem on OccurrenceItemId(master of u, index): the
\* instance is removed from the recurrence when the index names one of its
\* instances; any other index (0 included) is answered with an error.
DeleteOccurrenceInExchange(u, index) ==
    IF index \in (1..ev[u].last) \ ev[u].deleted
    THEN /\ ev' = [ev EXCEPT ![u].deleted = @ \cup {index}]
         /\ MasterUpdated(u)
         /\ UNCHANGED <<roomItems, invites, nextUID>>
    ELSE UNCHANGED exVars

\* cancelOccurrenceInEWS after the lock: group by downstream id, occurrence by
\* downstream id, a stored instance index of 0 is refused, then
\* ews.CancelOccurrence(group, occurrence) with the occurrence of the message:
\* the organizer's event is looked up by the stored UID and DeleteItem is sent
\* with occurrence.InstanceIndex.  Every exit unlocks (defer).
CancelOccurrenceInEWS(c) ==
    /\ Running
    /\ subPc[c] = "cancelOccurrence" /\ c \in credentialed
    /\ LET u == GetBookingGroupByElionaID(store, cur[c].group.ElionaID)
           occurrence == cur[c].group.Occurrences[cur[c].k]
           rows == GetBookingOccurrenceByElionaID(store, occurrence.ElionaID)
       IN
       \/ /\ Fault /\ faults' = faults + 1
          /\ h' = [h EXCEPT ![c].done = TRUE, ![c].occCalls = @ \cup {cur[c].k}]
          /\ UNCHANGED exVars
       \/ \* no group, no occurrence row, a row without instance index, or
          \* no such event in the organizer's calendar
          /\ \/ u = 0 \/ rows = {} \/ \E o \in rows : o.idx = 0
             \/ u # 0 /\ ev[u].state # "live"
          /\ h' = [h EXCEPT ![c].done = TRUE, ![c].occCalls = @ \cup {cur[c].k}]
          /\ UNCHANGED <<faults, exVars>>
       \/ /\ u # 0 /\ rows # {} /\ \A o \in rows : o.idx # 0
          /\ ev[u].state = "live"
          /\ DeleteOccurrenceInExchange(u, occurrence.InstanceIndex)
          /\ h' = [h EXCEPT ![c].done = TRUE, ![c].occCalls = @ \cup {cur[c].k},
                            ![c].occDeletes = @ \cup
                               {[uid |-> u, eid |-> occurrence.ElionaID,
                                 InstanceIndex |-> occurrence.InstanceIndex]}]
          /\ UNCHANGED faults
    /\ Return(c)
    /\ UNCHANGED <<xp, enabled, credentialed, roomList, pushVars, resubVars, lim, crashed, collVars, cur, syncState, store,
                   bkVars, msgCount, extCount, ghostVars>>

\* bookInEWS after the lock: exactly one occurrence is supported; then the
\* room mailboxes of its assets are looked up (conf.GetAssetEmailsByIds).
BookInEWS(c) ==
    /\ Running
    /\ subPc[c] = "book"
    /\ LET g == cur[c].group IN
       \/ /\ Len(g.Occurrences) # 1
          /\ Return(c)
          /\ h' = [h EXCEPT ![c].done = TRUE]
          /\ UNCHANGED <<cur, faults>>
       \/ /\ Len(g.Occurrences) = 1
          /\ Fault /\ faults' = faults + 1
          /\ Return(c)
          /\ h' = [h EXCEPT ![c].done = TRUE]
          /\ UNCHANGED cur
       \/ /\ Len(g.Occurrences) = 1
          /\ cur' = [cur EXCEPT ![c].emails =
                        SetToSeq({rb.AssetID : rb \in Range(g.Occurrences[1].RoomBookings)}
                                 \cap Assets)]
          /\ subPc' = [subPc EXCEPT ![c] = "create"]
          /\ UNCHANGED <<mu, h, faults>>
    /\ UNCHANGED <<xp, enabled, credentialed, roomList, pushVars, resubVars, lim, crashed, collVars, syncState, store, exVars, bkVars,
                   msgCount, extCount, ghostVars>>

\* A retry on every ErrNonExistentMailbox, whoever the organizer is.
ShouldRetryAnyOrganizer(err, organizer) == err = "nonExistentMailbox"

\* `errors.Is(err, ews.ErrNonExistentMailbox) && group.OrganizerEmail !=
\* *config.ServiceUserUPN`
ShouldRetry(err, organizer) ==
    err = "nonExistentMailbox" /\ organizer # ServiceUserUPN

\* createAppointment up to the settle delay inside ews.CreateAppointment: the
\* empty organizer is replaced, CreateItem is sent, the UID of the organizer's
\* copy is fetched.  ErrNonExistentMailbox re-enters createAppointment with
\* the service user when ShouldRetry; other errors go to the DELETE.
CreateAnswers == {"created", "nonExistentMailbox", "error"}
CreateAppointment(c) ==
    /\ Running
    /\ subPc[c] = "create" /\ c \in credentialed
    /\ LET g == cur[c].group
           org == IF g.OrganizerEmail = "" THEN ServiceUserUPN ELSE g.OrganizerEmail
           u == nextUID
       IN
       \/ \* Location: assetsEmails[0] on an empty list
          /\ cur[c].emails = <<>>
          /\ crashed' = TRUE
          /\ UNCHANGED <<subVars, exVars, faults>>
       \/ /\ cur[c].emails # <<>>
          /\ UNCHANGED crashed
          /\ \E answer \in CreateAnswers, uidOk \in BOOLEAN :
             /\ (answer = "error" \/ ~uidOk) => Fault
             /\ faults' = IF answer = "error" \/ ~uidOk THEN faults + 1 ELSE faults
             /\ IF answer = "created"
                THEN /\ u \in UIDs
                     /\ ev' = [ev EXCEPT ![u] = [state |-> "live", org |-> org,
                                                 by |-> g.ElionaID,
                                                 last |-> 0, deleted |-> {}]]
                     /\ invites' = invites \cup {<<u, a>> : a \in Range(cur[c].emails)}
                     /\ nextUID' = u + 1
                     /\ UNCHANGED <<roomItems, feed>>
                     /\ cur' = [cur EXCEPT ![c].group =
                                   [g EXCEPT !.OrganizerEmail = org,
                                             !.ExchangeUID = IF uidOk THEN u ELSE 0]]
                     /\ subPc' = [subPc EXCEPT ![c] =
                                     IF uidOk THEN "settle" ELSE "deleteError"]
                     /\ h' = [h EXCEPT ![c].attempts = @ + 1,
                                       ![c].orgs = Append(@, org),
                                       ![c].answers = Append(@, answer),
                                       ![c].created = @ \cup {u},
                                       ![c].result = IF uidOk THEN @ ELSE "error"]
                ELSE /\ uidOk
                     /\ UNCHANGED exVars
                     /\ IF ShouldRetry(answer, org)
                        THEN /\ cur' = [cur EXCEPT ![c].group.OrganizerEmail = ServiceUserUPN]
                             /\ subPc' = subPc
                             /\ h' = [h EXCEPT ![c].attempts = @ + 1,
                                               ![c].orgs = Append(@, org),
                                               ![c].answers = Append(@, answer)]
                        ELSE /\ cur' = [cur EXCEPT ![c].group.OrganizerEmail = org]
                             /\ subPc' = [subPc EXCEPT ![c] = "deleteError"]
                             /\ h' = [h EXCEPT ![c].attempts = @ + 1,
                                               ![c].orgs = Append(@, org),
                                               ![c].answers = Append(@, answer),
                                               ![c].result = answer]
    /\ UNCHANGED <<xp, enabled, credentialed, roomList, pushVars, resubVars, lim, mu, collVars, syncState, store, bkVars, msgCount,
                   extCount, ghostVars>>

\* ews.CreateAppointment after the settle delay: findEventUIDInMailbox for each
\* attendee in order.  A mailbox without the item (or a SOAP fault, which
\* decodes to an empty item list) ends with ErrDeclined, a transport error
\* with an ordinary error, otherwise the resource event ids are returned.
FindEvents(c) ==
    /\ Running
    /\ subPc[c] = "settle"
    /\ LET u == cur[c].group.ExchangeUID
           allFound == \A a \in Range(cur[c].emails) : ItemId(u, a, 0) \in roomItems
       IN
       \/ /\ allFound
          /\ cur' = [cur EXCEPT ![c].resourceEventIDs =
                        [j \in 1..Len(cur[c].emails) |-> ItemId(u, cur[c].emails[j], 0)]]
          /\ subPc' = [subPc EXCEPT ![c] = "upsert"]
          /\ h' = [h EXCEPT ![c].result = "ok"]
          /\ UNCHANGED faults
       \/ /\ ~allFound \/ Fault
          /\ faults' = IF allFound THEN faults + 1 ELSE faults
          /\ subPc' = [subPc EXCEPT ![c] = "cancelEvent"]
          /\ h' = [h EXCEPT ![c].result = "declined"]
          /\ UNCHANGED cur
       \/ /\ Fault /\ faults' = faults + 1
          /\ subPc' = [subPc EXCEPT ![c] = "deleteError"]
          /\ h' = [h EXCEPT ![c].result = "error"]
          /\ UNCHANGED cur
    /\ UNCHANGED <<xp, enabled, credentialed, roomList, pushVars, resubVars, lim, crashed, mu, collVars, syncState, store, exVars,
                   bkVars, msgCount, extCount, ghostVars>>

\* The ErrDeclined branch, ewsHelper.CancelEvent(group): on failure the
\* handler returns without the DELETE.
CancelConflicting(c) ==
    /\ Running
    /\ subPc[c] = "cancelEvent"
    /\ LET u == cur[c].group.ExchangeUID IN
       \/ /\ ev[u].state = "live"
          /\ CancelInExchange(u)
          /\ subPc' = [subPc EXCEPT ![c] = "deleteConflict"]
          /\ h' = [h EXCEPT ![c].cancelEvents = @ + 1]
          /\ UNCHANGED <<mu, faults>>
       \/ /\ \/ Fault /\ faults' = faults + 1
             \/ ev[u].state # "live" /\ UNCHANGED faults
          /\ Return(c)
          /\ h' = [h EXCEPT ![c].cancelEvents = @ + 1, ![c].done = TRUE]
          /\ UNCHANGED exVars
    /\ UNCHANGED <<xp, enabled, credentialed, roomList, pushVars, resubVars, lim, crashed, collVars, cur, syncState, store, bkVars,
                   msgCount, extCount, ghostVars>>

\* bc.Cancel(group.ElionaID, reason): DELETE /bookings/{id}?reason=...  The
\* error branch returns whatever the Booking service answered; the ErrDeclined
\* branch returns only when the DELETE failed, and otherwise leaves the
\* if-chain and goes on to conf.UpsertBooking with no resource event ids.
DeleteDownstream(c) ==
    /\ Running
    /\ subPc[c] \in {"deleteConflict", "deleteError"}
    /\ LET reason == IF subPc[c] = "deleteConflict" THEN "conflict" ELSE "error"
           gid == cur[c].group.ElionaID
       IN
       \/ /\ bk' = [bk EXCEPT ![gid].state = "cancelled", ![gid].reason = reason]
          /\ UNCHANGED faults
          /\ IF subPc[c] = "deleteConflict"
             THEN /\ subPc' = [subPc EXCEPT ![c] = "upsert"]
                  /\ h' = [h EXCEPT ![c].delete = reason]
                  /\ UNCHANGED mu
             ELSE /\ Return(c)
                  /\ h' = [h EXCEPT ![c].delete = reason, ![c].done = TRUE]
       \/ /\ Fault /\ faults' = faults + 1
          /\ UNCHANGED bk
          /\ Return(c)
          /\ h' = [h EXCEPT ![c].delete = reason, ![c].done = TRUE]
    /\ UNCHANGED <<xp, enabled, credentialed, roomList, pushVars, resubVars, lim, crashed, collVars, cur, syncState, store, exVars,
                   nextGid, msgCount, extCount, ghostVars>>

\* The tail of createAppointment: the occurrence's room bookings are replaced
\* by the returned resource event ids and conf.UpsertBooking records the group.
RecordCreated(c) ==
    /\ Running
    /\ subPc[c] = "upsert"
    /\ \E failAt \in UpsertFailures :
       LET g == cur[c].group
           rbs == [j \in 1..Len(cur[c].resourceEventIDs) |->
                      [AssetID |-> 0, ExchangeID |-> cur[c].resourceEventIDs[j]]]
           group == [g EXCEPT !.Occurrences[1].RoomBookings = rbs]
           up == UpsertBooking(store, group, failAt)
       IN
       /\ failAt # "none" => Fault
       /\ faults' = IF failAt = "none" THEN faults ELSE faults + 1
       /\ store' = up.store
       /\ h' = [h EXCEPT ![c].upserted = ~up.err, ![c].done = TRUE]
    /\ Return(c)
    /\ UNCHANGED <<xp, enabled, credentialed, roomList, pushVars, resubVars, lim, crashed, collVars, cur, syncState, exVars, bkVars,
                   msgCount, extCount, ghostVars>>

\* ------------------------------------------------------------- environment
\* An Exchange user books rooms R from Outlook.
ExUserCreate ==
    /\ Running
    /\ extCount < lim.ext /\ nextUID \in UIDs
    /\ \E R \in (SUBSET Assets) \ {{}} :
         /\ ev' = [ev EXCEPT ![nextUID] =
                      [state |-> "live", org |-> "alice@x.test", by |-> 0,
                       last |-> 0, deleted |-> {}]]
         /\ invites' = invites \cup {<<nextUID, a>> : a \in R}
    /\ nextUID' = nextUID + 1
    /\ extCount' = extCount + 1
    /\ UNCHANGED <<xp, enabled, credentialed, roomList, pushVars, resubVars, lim, crashed, mu, collVars, subVars, syncState, store,
                   roomItems, feed, bkVars, msgCount, faults, ghostVars>>

\* The organizer cancels a meeting from Outlook.
ExUserCancel ==
    /\ Running
    /\ extCount < lim.ext
    /\ \E u \in UIDs : ev[u].state = "live" /\ CancelInExchange(u)
    /\ extCount' = extCount + 1
    /\ UNCHANGED <<xp, enabled, credentialed, roomList, pushVars, resubVars, lim, crashed, mu, collVars, subVars, syncState, store,
                   bkVars, msgCount, faults, ghostVars>>

\* The organizer changes a meeting: every room calendar holding it reports an
\* Update.
ExUserUpdate ==
    /\ Running
    /\ extCount < lim.ext
    /\ \E u \in UIDs :
         /\ ev[u].state = "live"
         /\ \E a \in Assets : ItemId(u, a, 0) \in roomItems
         /\ \A a \in Assets : Len(feed[a]) < MaxFeed
         /\ feed' = [a \in Assets |->
                       IF ItemId(u, a, 0) \in roomItems
                       THEN Append(feed[a], [kind |-> "Update", uid |-> u])
                       ELSE feed[a]]
    /\ extCount' = extCount + 1
    /\ UNCHANGED <<xp, enabled, credentialed, roomList, pushVars, resubVars, lim, crashed, mu, collVars, subVars, syncState, store,
                   ev, roomItems, invites, nextUID, bkVars, msgCount, faults,
                   ghostVars>>

\* An Exchange user books rooms R for a recurring meeting of n instances.
ExUserCreateSeries ==
    /\ Running
    /\ extCount < lim.ext /\ nextUID \in UIDs
    /\ \E R \in (SUBSET Assets) \ {{}} : \E n \in 2..MaxInst :
         /\ ev' = [ev EXCEPT ![nextUID] =
                      [state |-> "live", org |-> "alice@x.test", by |-> 0,
                       last |-> n, deleted |-> {}]]
         /\ invites' = invites \cup {<<nextUID, a>> : a \in R}
    /\ nextUID' = nextUID + 1
    /\ extCount' = extCount + 1
    /\ UNCHANGED <<xp, enabled, credentialed, roomList, pushVars, resubVars, lim, crashed, mu, collVars, subVars, syncState, store,
                   roomItems, feed, bkVars, msgCount, faults, ghostVars>>

\* The organizer deletes one instance of a recurring meeting.
ExUserDeleteInstance ==
    /\ Running
    /\ extCount < lim.ext
    /\ \E u \in UIDs : \E i \in (1..ev[u].last) \ ev[u].deleted :
         /\ ev[u].state = "live"
         /\ ev' = [ev EXCEPT ![u].deleted = @ \cup {i}]
         /\ MasterUpdated(u)
    /\ extCount' = extCount + 1
    /\ UNCHANGED <<xp, enabled, credentialed, roomList, pushVars, resubVars, lim, crashed, mu, collVars, subVars, syncState, store,
                   roomItems, invites, nextUID, bkVars, msgCount, faults,
                   ghostVars>>

\* The organizer moves the end of a recurring meeting one instance later.
ExUserExtendSeries ==
    /\ Running
    /\ extCount < lim.ext
    /\ \E u \in UIDs :
         /\ ev[u].state = "live"
         /\ ev[u].last > 0 /\ ev[u].last < MaxInst
         /\ ev' = [ev EXCEPT ![u].last = @ + 1]
         /\ MasterUpdated(u)
    /\ extCount' = extCount + 1
    /\ UNCHANGED <<xp, enabled, credentialed, roomList, pushVars, resubVars, lim, crashed, mu, collVars, subVars, syncState, store,
                   roomItems, invites, nextUID, bkVars, msgCount, faults,
                   ghostVars>>

\* A room mailbox processes an invitation: it accepts (the item appears in its
\* calendar) or declines.
RoomAccept ==
    /\ Running
    /\ \E iv \in invites :
         /\ roomItems' = roomItems \cup {ItemId(iv[1], iv[2], 0)}
         /\ feed' = [feed EXCEPT ![iv[2]] = Append(@, [kind |-> "Create", uid |-> iv[1]])]
         /\ invites' = invites \ {iv}
    /\ UNCHANGED <<xp, enabled, credentialed, roomList, pushVars, resubVars, lim, crashed, mu, collVars, subVars, syncState, store,
                   ev, nextUID, bkVars, msgCount, extCount, faults, ghostVars>>

RoomDecline ==
    /\ Running
    /\ \E iv \in invites : invites' = invites \ {iv}
    /\ UNCHANGED <<xp, enabled, credentialed, roomList, pushVars, resubVars, lim, crashed, mu, collVars, subVars, syncState, store,
                   ev, roomItems, feed, nextUID, bkVars, msgCount, extCount,
                   faults, ghostVars>>

\* ------------------------------------------------------------ specification
InitProgram(E, V, L) ==
    /\ enabled = E
    /\ credentialed = V
    /\ roomList = Assets
    /\ inHand = [c \in Configs |-> NoGroupMsg]
    /\ postedGids = {}
    /\ lim = L
    /\ resubscribeTrigger = 0
    /\ listening = [c \in Configs |-> FALSE]
    /\ stale = 0
    /\ ctxCancelled = [c \in Configs |-> FALSE]
    /\ missing = [c \in Configs |-> FALSE]
    /\ discCount = 0
    /\ lsn = [c \in Configs |-> NoListener]
    /\ dropped = FALSE
    /\ crashed = FALSE
    /\ mu = NoTask
    /\ collPc = [c \in Configs |-> "idle"]
    /\ collIdx = [c \in Configs |-> 1]
    /\ collLoc = [c \in Configs |-> NoLoc]
    /\ toBook = [c \in Configs |-> {}]
    /\ cancelledBookings = [c \in Configs |-> <<>>]
    /\ subPc = [c \in Configs |-> "down"]
    /\ cur = [c \in Configs |-> NoCur]
    /\ h = [c \in Configs |-> NoHist]
    /\ syncState = [a \in Assets |-> 0]
    /\ store = EmptyStore
    /\ ev = [u \in UIDs |-> NoEvent]
    /\ roomItems = {}
    /\ invites = {}
    /\ feed = [a \in Assets |-> <<>>]
    /\ nextUID = 1
    /\ bk = [g \in Gids |-> NoBooking]
    /\ nextGid = 1
    /\ msgCount = 0
    /\ extCount = 0
    /\ faults = 0
    /\ consumed = {}
    /\ pushed = {}

\* No helper function is followed on its own.
InitCred(E, V, L) == InitProgram(E, V, L) /\ xp = NoExpansion

\* Every configuration in E is enabled and has complete credentials.
InitWith(E, L) == InitCred(E, Configs, L)

Init == InitWith({1}, [msgs |-> MaxMsgs, ext |-> MaxExt, faults |-> MaxFaults,
              chunk |-> WholeFeed, disc |-> 0])

TaskStep(c) ==
    \/ StartCollection(c) \/ LockAsset(c) \/ SyncAsset(c) \/ AssignAsset(c)
    \/ PersistAsset(c) \/ BookGroup(c) \/ CancelOne(c)
    \/ StartSubscription(c) \/ ReadError(c) \/ Receive(c) \/ LockWriter(c)
    \/ CancelInEWS(c) \/ CancelOccurrenceInEWS(c) \/ BookInEWS(c)
    \/ CreateAppointment(c) \/ FindEvents(c) \/ CancelConflicting(c)
    \/ DeleteDownstream(c) \/ RecordCreated(c)

Environment ==
    ExUserCreate \/ ExUserCancel \/ ExUserUpdate \/ RoomAccept \/ RoomDecline

Next == (\E c \in Configs : TaskStep(c)) \/ Environment

Spec == Init /\ [][Next]_vars


\* The writer alone: one configuration, no collection pass, no Exchange users.
WriterStep(c) ==
    \/ StartSubscription(c) \/ ReadError(c) \/ Receive(c) \/ LockWriter(c)
    \/ CancelInEWS(c) \/ CancelOccurrenceInEWS(c) \/ BookInEWS(c)
    \/ CreateAppointment(c) \/ FindEvents(c) \/ CancelConflicting(c)
    \/ DeleteDownstream(c) \/ RecordCreated(c)
InitCreate == InitWith({1}, [msgs |-> CreateMsgs, ext |-> 0, faults |-> CreateFaults,
              chunk |-> WholeFeed, disc |-> 0])
NextCreate == (\E c \in Configs : WriterStep(c)) \/ RoomAccept \/ RoomDecline
SpecCreate == InitCreate /\ [][NextCreate]_vars

\* The writer alone, with a second message from the Booking service.
InitRedelivery ==
    InitWith({1}, [msgs |-> RedeliveryMsgs, ext |-> 0, faults |-> RedeliveryFaults,
              chunk |-> WholeFeed, disc |-> 0])
SpecRedelivery == InitRedelivery /\ [][NextCreate]_vars

\* The sync engine alone: one configuration, no WebSocket message arrives.
CollectorStep(c) ==
    \/ StartCollection(c) \/ LockAsset(c) \/ SyncAsset(c) \/ AssignAsset(c)
    \/ PersistAsset(c) \/ BookGroup(c) \/ CancelOne(c)
InitSync == InitWith({1}, [msgs |-> 0, ext |-> SyncExt, faults |-> SyncFaults,
              chunk |-> WholeFeed, disc |-> 0])
NextSync == (\E c \in Configs : CollectorStep(c)) \/ Environment
SpecSync == InitSync /\ [][NextSync]_vars


\* The collector alone with more pending changes in a room calendar than one
\* SyncFolderItems response carries.
InitDrain == InitWith({1}, [msgs |-> 0, ext |-> DrainExt, faults |-> 0,
                            chunk |-> DrainChunk, disc |-> 0])
SpecDrain == InitDrain /\ [][NextSync]_vars

\* The collector alone with recurring meetings in the room calendars.  A
\* deleted master is looked up by its own item id, which no room booking row
\* of a recurring group carries, so no cancellation is ever queued here.
SeriesStep(c) ==
    \/ StartCollection(c) \/ LockAsset(c) \/ SyncAsset(c) \/ AssignAsset(c)
    \/ PersistAsset(c) \/ BookGroup(c)
InitSeries == InitWith({1}, [msgs |-> 0, ext |-> SeriesExt, faults |-> SeriesFaults,
              chunk |-> WholeFeed, disc |-> 0])
NextSeries ==
    \/ \E c \in Configs : SeriesStep(c)
    \/ ExUserCreateSeries \/ ExUserDeleteInstance \/ ExUserExtendSeries
    \/ RoomAccept
SpecSeries == InitSeries /\ [][NextSeries]_vars


\* Both configurations enabled: two collection tasks and two subscription
\* tasks, one WebSocket message, one cancellation from Outlook.
InitTwo == InitWith(Configs, [msgs |-> TwoMsgs, ext |-> TwoExt, faults |-> TwoFaults,
              chunk |-> WholeFeed, disc |-> 0])
NextTwo == (\E c \in Configs : TaskStep(c)) \/ RoomAccept \/ RoomDecline \/ ExUserCancel
SpecTwo == InitTwo /\ [][NextTwo]_vars

\* Discovery and re-subscription: both configurations have a room list, the
\* room calendars stay empty (no pass has a group to book) and no WebSocket
\* message arrives.
ResubStep(c) ==
    \/ StartCollection(c) \/ DiscoverNewAssets(c) \/ LockAsset(c) \/ SyncAsset(c)
    \/ AssignAsset(c) \/ PersistAsset(c)
    \/ StartSubscription(c) \/ ReadError(c) \/ ListenerFires(c) \/ ContextDone(c)
InitResub == InitWith(Configs, [msgs |-> 0, ext |-> 0, faults |-> ResubFaults,
              chunk |-> WholeFeed, disc |-> ResubDisc])
NextResub == (\E c \in Configs : ResubStep(c)) \/ StaleListenerFires
SpecResub == InitResub /\ [][NextResub]_vars

\* Two enabled configurations, the second without a complete credential set.
InvalidStep(c) ==
    \/ StartCollection(c) \/ LockAsset(c) \/ SyncAsset(c) \/ AssignAsset(c)
    \/ PersistAsset(c) \/ BookGroup(c)
    \/ StartSubscription(c) \/ ReadError(c) \/ NewEWSHelperPanic(c)
InitInvalid == InitCred(Configs, {1},
                        [msgs |-> 0, ext |-> InvalidExt, faults |-> InvalidFaults,
                         chunk |-> WholeFeed, disc |-> 0])
NextInvalid == (\E c \in Configs : InvalidStep(c)) \/ ExUserCreate \/ RoomAccept
SpecInvalid == InitInvalid /\ [][NextInvalid]_vars


\* conf.UpsertConfig with Enable = false: the configuration API disables a
\* configuration while the process runs.  collectData reads the table again
\* on its next round; running tasks keep the copy they were started with.
DisableConfig(c) ==
    /\ Running
    /\ c \in enabled
    /\ enabled' = enabled \ {c}
    /\ UNCHANGED <<xp, credentialed, roomList, pushVars, resubVars, lim, crashed, mu, collVars,
                   subVars,
                   syncState, store, exVars, bkVars, msgCount, extCount, faults,
                   ghostVars>>

\* An Exchange administrator removes room a from the room list: GetRooms no
\* longer returns it.  The asset row stays in the asset table.
RemoveFromRoomList(a) ==
    /\ Running
    /\ HasRoomList
    /\ a \in roomList
    /\ roomList' = roomList \ {a}
    /\ UNCHANGED <<xp, enabled, credentialed, pushVars, resubVars, lim, crashed, mu, collVars,
                   subVars, syncState, store, exVars, bkVars, msgCount, extCount,
                   faults, ghostVars>>

\* The collector of one configuration with a room list from which rooms are
\* removed while meetings are booked from Outlook.
RoomsStep(c) ==
    \/ StartCollection(c) \/ DiscoverNewAssets(c) \/ LockAsset(c) \/ SyncAsset(c)
    \/ AssignAsset(c) \/ PersistAsset(c) \/ BookGroup(c)
InitRooms == InitWith({1}, [msgs |-> 0, ext |-> RoomsExt, faults |-> RoomsFaults,
              chunk |-> WholeFeed, disc |-> RoomsDisc])
NextRooms ==
    \/ \E c \in Configs : RoomsStep(c)
    \/ \E a \in Assets : RemoveFromRoomList(a)
    \/ ExUserCreate \/ RoomAccept
SpecRooms == InitRooms /\ [][NextRooms]_vars

\* The push of a collection pass next to the subscription: a meeting booked
\* from Outlook is pushed downstream and recorded in two steps while the
\* Booking service reports a cancellation.
PushStep(c) ==
    \/ StartCollection(c) \/ LockAsset(c) \/ SyncAsset(c) \/ AssignAsset(c)
    \/ PersistAsset(c) \/ PostGroup(c) \/ RecordGroup(c)
    \/ StartSubscription(c) \/ Receive(c) \/ LockWriter(c) \/ CancelInEWS(c)
InitPush == InitWith({1}, [msgs |-> PushMsgs, ext |-> PushExt, faults |-> PushFaults,
              chunk |-> WholeFeed, disc |-> 0])
NextPush == (\E c \in Configs : PushStep(c)) \/ ExUserCreate \/ RoomAccept
SpecPush == InitPush /\ [][NextPush]_vars

\* The whole engine with a configuration that is disabled during the run.
NextDisable == Next \/ \E c \in Configs : DisableConfig(c)
SpecDisable == Init /\ [][NextDisable]_vars


\* A recurring meeting booked from Outlook is pushed downstream, and the
\* Booking service then reports occurrences of it as cancelled.
OccurrenceStep(c) == SeriesStep(c) \/ WriterStep(c)
InitOccurrence ==
    InitWith({1}, [msgs |-> OccurrenceMsgs, ext |-> OccurrenceExt,
                   faults |-> OccurrenceFaults, chunk |-> WholeFeed, disc |-> 0])
NextOccurrence ==
    \/ \E c \in Configs : OccurrenceStep(c)
    \/ ExUserCreateSeries \/ RoomAccept \/ RoomDecline
SpecOccurrence == InitOccurrence /\ [][NextOccurrence]_vars

\* The subscription with the listener of booking.ListenForBookings in detail,
\* next to the collector of a configuration with a room list (empty room
\* calendars).  The Booking service reports bookings that are already
\* cancelled.
ListenStep(c) ==
    \/ StartCollection(c) \/ DiscoverNewAssets(c) \/ LockAsset(c) \/ SyncAsset(c)
    \/ AssignAsset(c) \/ PersistAsset(c)
    \/ Subscribe(c) \/ HelperReads(c) \/ HelperUnblocked(c) \/ ReaderTakesDone(c)
    \/ ReaderTakesCtx(c) \/ ConsumerReceives(c) \/ ConsumerReturns(c)
    \/ ListenerFires(c) \/ LockWriter(c) \/ CancelInEWS(c)
InitListen == InitWith({1}, [msgs |-> ListenMsgs, ext |-> 0, faults |-> ListenFaults,
              chunk |-> WholeFeed, disc |-> ListenDisc])
NextListen == (\E c \in Configs : ListenStep(c)) \/ StaleListenerFires
SpecListen == InitListen /\ [][NextListen]_vars
\* The goroutines of the listener and of the consumer are scheduled, a ready
\* case of a select is eventually taken, sync.Mutex does not starve a waiter
\* and a pass that holds the mutex goes on to release it.
FairListen ==
    \A c \in Configs :
        /\ WF_vars(ReaderTakesDone(c)) /\ WF_vars(ReaderTakesCtx(c))
        /\ WF_vars(HelperUnblocked(c)) /\ WF_vars(ConsumerReceives(c))
        /\ WF_vars(ConsumerReturns(c)) /\ SF_vars(LockWriter(c))
        /\ WF_vars(CancelInEWS(c))
        /\ WF_vars(SyncAsset(c)) /\ WF_vars(AssignAsset(c))
        /\ WF_vars(PersistAsset(c))
SpecListenFair == SpecListen /\ FairListen

\* ews.expandRecurrence on its own, for every script of answers of Exchange
\* of up to MaxAnswers answers.
RECURSIVE SeqsUpTo(_, _)
SeqsUpTo(S, n) ==
    IF n = 0 THEN {<<>>}
    ELSE LET shorter == SeqsUpTo(S, n - 1)
         IN shorter \cup {Append(q, x) : q \in shorter, x \in S}
ExpandLoop ==
    /\ xp.state = "run"
    /\ xp' = expandRecurrenceIteration(xp)
    /\ UNCHANGED <<enabled, credentialed, roomList, pushVars, resubVars, lim, crashed, mu, collVars,
                   subVars, syncState, store, exVars, bkVars, msgCount, extCount,
                   faults, ghostVars>>
InitExpand ==
    /\ InitProgram({1}, Configs, [msgs |-> 0, ext |-> 0, faults |-> 0,
                                  chunk |-> WholeFeed, disc |-> 0])
    /\ \E script \in SeqsUpTo(ExpandAnswers, MaxAnswers) :
          xp = [NoExpansion EXCEPT !.answers = script, !.state = "run"]
NextExpand == ExpandLoop
SpecExpand == InitExpand /\ [][NextExpand]_vars

\* conf.UpsertBooking on its own: groups with one occurrence and one room
\* booking are upserted one after the other into the store, starting from the
\* empty store; only the UNIQUE constraints reject a statement.
UpsertOrganizers == {"alice@x.test", ServiceUserUPN}
UpsertInputs ==
    {[ElionaID |-> egid, ExchangeUID |-> u, OrganizerEmail |-> org,
      Occurrences |-> << [ElionaID |-> eid, InstanceIndex |-> idx, Cancelled |-> FALSE,
                          RoomBookings |-> << [AssetID |-> 1,
                                               ExchangeID |-> ItemId(it, 1, 1)] >>] >>] :
       egid \in Gids, u \in UIDs, org \in UpsertOrganizers, eid \in 1..MaxBookingId,
       idx \in 1..MaxIndex, it \in UIDs}
UpsertOne ==
    /\ \E group \in UpsertInputs : store' = UpsertBooking(store, group, "none").store
    /\ UNCHANGED <<xp, enabled, credentialed, roomList, pushVars, resubVars, lim, crashed, mu, collVars,
                   subVars, syncState, exVars, bkVars, msgCount, extCount,
                   faults, ghostVars>>
InitUpsert == InitWith({1}, [msgs |-> 0, ext |-> 0, faults |-> 0,
                            chunk |-> WholeFeed, disc |-> 0])
NextUpsert == UpsertOne
SpecUpsert == InitUpsert /\ [][NextUpsert]_vars

\* ------------------------------------------------------------------ claims
\* A collection pass is inside its mutex-guarded per-asset section.
InSyncSection(c) == collPc[c] \in {"sync", "assign", "persist"}
\* A subscription task is inside cancelInEWS, cancelOccurrenceInEWS or
\* bookInEWS (createAppointment included), after its mu.Lock().
InWritePath(c) ==
    subPc[c] \in {"cancel", "cancelOccurrence", "book", "create", "settle",
                  "cancelEvent", "deleteConflict", "deleteError", "upsert"}
WaitsForLock(c) == subPc[c] \in {"cancelLock", "occLock", "bookLock"}

\* C1: the per-asset sync sections of the collection passes and the write
\* paths cancelInEWS, cancelOccurrenceInEWS and bookInEWS of the subscription
\* tasks are mutually exclusive: at most one task is inside one of them at any
\* time, and that task is the holder of the mutex.
C1_MutualExclusion ==
    /\ Cardinality({c \in Configs : InSyncSection(c)})
         + Cardinality({c \in Configs : InWritePath(c)}) <= 1
    /\ \A c \in Configs : /\ InSyncSection(c) => mu = Collection(c)
                          /\ InWritePath(c) => mu = Subscription(c)

\* One subscription task is creating an appointment while a collection pass of
\* the other configuration and the other subscription task wait for the mutex.
C1_Witness ==
    \E c, d \in Configs :
        /\ c # d
        /\ subPc[c] = "settle"
        /\ collPc[d] = "loop" /\ collPc[c] = "loop"

\* C2: a collection task holds the mutex only while it is inside the per-asset
\* section; once its pass has left the section (by finishing the asset or by
\* aborting on an error) the mutex is free for the next pass and for the
\* subscription tasks.
C2_MutexReleasedWhenPassLeavesSection ==
    \A c \in Configs : mu = Collection(c) => InSyncSection(c)

\* A pass aborted inside the section, the mutex is still held by its task, and
\* a subscription task with a received message waits for it.
C2_LeakWitness ==
    \E c \in Configs :
        /\ collPc[c] \in {"idle", "loop"} /\ mu = Collection(c)
        /\ WaitsForLock(c)

\* C3: round trip.  Every group a collection pass has collected for an
\* Exchange event that the writer created for a downstream booking carries the
\* id of that downstream group, so the pass pushes it as an update of the
\* existing booking and never as a new one, whatever followed the CreateItem.
C3_RoundTripKeepsIdentity ==
    \A c \in Configs : \A g \in toBook[c] :
        ev[g.ExchangeUID].by # 0 => g.ElionaID = ev[g.ExchangeUID].by

\* The store links an event the writer created for one downstream group to a
\* second downstream group, which the push of a collection pass has created.
C3_SecondBookingWitness ==
    \E u \in UIDs :
        /\ ev[u].by # 0 /\ ev[u].state = "live"
        /\ GroupOf(store, u).present /\ GroupOf(store, u).egid # ev[u].by
        /\ bk[GroupOf(store, u).egid].state = "active"

\* A pass holds the change of event u in room a in its toBook map.
Pending(a, u) ==
    \E c \in Configs : \E g \in toBook[c] :
        g.ExchangeUID = u /\ a \in AllAssetsOf(g)

\* C4: every created or updated item a pass has consumed for an asset (the new
\* cookie is persisted) has been pushed to the Booking service or is still held
\* by a running pass that will push it.
C4_ConsumedChangesArePushed ==
    \A p \in consumed : p \in pushed \/ Pending(p[1], p[2])

\* C5: the cookie stored for an asset never goes back to an earlier cookie
\* (cookies are positions in the room calendar's change feed, 0 the empty
\* initial cookie).
C5_CookiesMonotonic ==
    [][\A a \in Assets : syncState'[a] >= syncState[a]]_vars

\* C6: when the handling of a create that ended with ErrDeclined has finished,
\* CancelEvent was called exactly once and the DELETE with reason=conflict was
\* issued.
C6_DeclinedIsCancelledThenDeleted ==
    \A c \in Configs :
        (h[c].done /\ h[c].result = "declined")
            => (h[c].cancelEvents = 1 /\ h[c].delete = "conflict")

\* C7: createAppointment is attempted at most twice for one message; a second
\* attempt follows only an ErrNonExistentMailbox answer to an organizer other
\* than the service user and uses the service user; when the retry succeeds
\* and the group is recorded, its stored organizer is the service user.
C7_AtMostOneRetryAsServiceUser ==
    \A c \in Configs :
        /\ h[c].attempts <= 2
        /\ h[c].attempts = 2 =>
              /\ h[c].answers[1] = "nonExistentMailbox"
              /\ h[c].orgs[1] # ServiceUserUPN
              /\ h[c].orgs[2] = ServiceUserUPN
        /\ (h[c].attempts = 2 /\ h[c].result = "ok" /\ h[c].upserted) =>
              GroupOf(store, cur[c].group.ExchangeUID).org = ServiceUserUPN

\* The retry as the service user succeeded and the group is recorded.
C7_Witness ==
    \E c \in Configs :
        /\ h[c].attempts = 2 /\ h[c].result = "ok" /\ h[c].upserted
        /\ GroupOf(store, cur[c].group.ExchangeUID).org = ServiceUserUPN
        /\ h[c].orgs[1] = "alice@x.test"

\* C8: when the handling of a create message has finished without recording an
\* Exchange event in the store, the DELETE of the downstream booking was issued
\* with a reason.
C8_FailedCreateIsDeletedDownstream ==
    \A c \in Configs :
        (h[c].done /\ h[c].kind = "create" /\ ~h[c].upserted) => h[c].delete # ""

\* C9: when the handling of a create that ended declined or with an error has
\* finished, no event that its CreateItem created is still live in Exchange.
C9_NoEventLeftAfterFailedCreate ==
    \A c \in Configs :
        (h[c].done /\ h[c].result \in {"declined", "error"})
            => \A u \in h[c].created : ev[u].state # "live"

\* C10: the writer never creates an Exchange event for a downstream group that
\* already has a BookingGroup row (and so an Exchange UID) in the store: a
\* message without cancellations for such a group creates no appointment.
C10_NoCreateForRecordedGroup ==
    [][\A u \in UIDs :
          (ev[u].state = "none" /\ ev'[u].state = "live" /\ ev'[u].by # 0)
              => GetBookingGroupByElionaID(store, ev'[u].by) = 0]_vars

\* A message without cancellations for a group already recorded with an
\* Exchange UID has produced a second live event for that group.
C10_DoubleBookingWitness ==
    \E g \in Gids : \E u, v \in UIDs :
        /\ u # v /\ ev[u].by = g /\ ev[v].by = g
        /\ ev[u].state = "live" /\ ev[v].state = "live"
        /\ GroupOf(store, u).present /\ GroupOf(store, u).egid = g

\* C11: in every reachable state of the identity store, whatever the
\* interleaving of the collector's upserts after a push and the subscription's
\* upserts after a create: at most one booking group per Exchange UID, at most
\* one occurrence per (group, instance index), at most one room booking per
\* resource event id, and every room booking resolves through its occurrence
\* to exactly one booking group.
C11_StoreInvariants ==
    /\ \A r1, r2 \in store.groups : r1.uid = r2.uid => r1 = r2
    /\ \A o1, o2 \in store.occurrences :
          (o1.uid = o2.uid /\ o1.idx = o2.idx) => o1 = o2
    /\ \A b1, b2 \in store.roomBookings : b1.item = b2.item => b1 = b2
    /\ \A b \in store.roomBookings :
          /\ Cardinality({o \in store.occurrences :
                             o.uid = b.uid /\ o.idx = b.idx}) = 1
          /\ Cardinality({r \in store.groups : r.uid = b.uid}) = 1

\* A group created by the subscription task and recorded by it, whose items
\* the collector has also pushed and upserted.
C11_Witness ==
    \E c \in Configs : \E u \in h[c].created : \E a \in Assets :
        /\ h[c].upserted
        /\ <<a, u>> \in pushed
        /\ \E b \in store.roomBookings : b.uid = u

\* C12: for every UID a collection pass has observed from Exchange (and whose
\* cookie it has persisted), exactly one booking group row exists once the
\* pass has ended.
C12_ObservedUIDHasOneGroupRow ==
    (\A c \in Configs : collPc[c] = "idle") =>
        \A p \in consumed : Cardinality({r \in store.groups : r.uid = p[2]}) = 1

\* C13: when createAppointment has returned (uid, resourceEventIDs) and the
\* identity upsert succeeds, the lookup of the owning group by resource event
\* id returns, for every returned id, the group with that uid, and that group
\* carries the downstream group id of the message.
C13_LookupByResourceEventId ==
    [][\A c \in Configs :
         (subPc[c] = "upsert" /\ ~h[c].done /\ h'[c].upserted) =>
            \A j \in 1..Len(cur[c].resourceEventIDs) :
               /\ GetBookingGroupByExchangeID(store', cur[c].resourceEventIDs[j])
                     = cur[c].group.ExchangeUID
               /\ GroupOf(store', cur[c].group.ExchangeUID).egid
                     = cur[c].group.ElionaID]_vars

\* A created appointment with a resource event id has been recorded.
C13_Witness ==
    \E c \in Configs : \E u \in h[c].created :
        /\ h[c].upserted /\ h[c].result = "ok"
        /\ \E b \in store.roomBookings : b.uid = u
        /\ GroupOf(store, u).egid = h[c].gid

\* C14: a RecurringMaster of the Create or Update feed is never itself an
\* occurrence: the group built from it holds only its expanded instances
\* (instance index >= 1, each with its own item id), and neither a group
\* collected for the push nor the store holds an occurrence with instance
\* index 0 for a recurring group.
Recurring(u) == ev[u].last > 0
C14_NoIndexZeroForRecurringGroup ==
    /\ \A c \in Configs :
          /\ \A g \in Range(collLoc[c].new) \cup Range(collLoc[c].updated) :
                Recurring(g.ExchangeUID) =>
                   \A o \in Range(g.Occurrences) :
                      /\ o.InstanceIndex >= 1
                      /\ \A rb \in Range(o.RoomBookings) :
                            rb.ExchangeID =
                               ItemId(g.ExchangeUID, rb.AssetID, o.InstanceIndex)
          /\ \A g \in toBook[c] :
                Recurring(g.ExchangeUID) =>
                   \A o \in Range(g.Occurrences) : o.InstanceIndex >= 1
    /\ \A o \in store.occurrences : Recurring(o.uid) => o.idx >= 1

\* C15: for a group already linked downstream, the occurrences identity
\* assignment appends as cancelled are exactly the stored downstream
\* occurrences of the group whose instance index is absent from the current
\* Exchange enumeration of the group: none missing, none extra.
Enumerated(g) == {o.InstanceIndex : o \in {x \in Range(g.Occurrences) : ~x.Cancelled}}
AppendedAsCancelled(g) == {o.ElionaID : o \in {x \in Range(g.Occurrences) : x.Cancelled}}
C15_InferredCancellationsAreExact ==
    \A c \in Configs : \A g \in toBook[c] :
        GetBookingGroupByExchangeUID(store, g.ExchangeUID) # 0 =>
            AppendedAsCancelled(g) =
                {r.eid : r \in {x \in store.occurrences :
                                   x.uid = g.ExchangeUID /\ x.idx \notin Enumerated(g)}}

\* C19: the Exchange mutex is not held while the subscription task waits out
\* the settle delay inside createAppointment, nor while it calls the Booking
\* service (DELETE on conflict or on error), so a collection pass can take the
\* mutex during those steps.
C19_MutexFreeDuringSettleAndDelete ==
    \A c \in Configs :
        subPc[c] \in {"settle", "deleteConflict", "deleteError"} =>
            mu # Subscription(c)

\* C18: a collection pass leaves an asset only after a SyncFolderItems response
\* that reports IncludesLastItemInRange = true, so the changes it has collected
\* for the asset are all the changes that were pending.
C18_PassDrainsAllPendingChanges ==
    [][\A c \in Configs :
         (collPc[c] = "sync" /\ collPc'[c] = "assign") =>
            IncludesLastItemInRange(feed[collIdx[c]], syncState[collIdx[c]])]_vars

\* C16: whenever discovery has created assets that the live subscription of
\* a configuration does not watch, the re-subscription of that configuration
\* is still under way: a signal is buffered in resubscribeTrigger for its
\* goroutine to take, or its context is already cancelled.  (Once neither
\* holds, nothing tears the subscription down.)
C16_DiscoveryResubscribes ==
    \A c \in Configs :
        (missing[c] /\ subPc[c] # "down") =>
            \/ resubscribeTrigger > 0 /\ listening[c]
            \/ ctxCancelled[c]

\* C17: triggerResubscribe can always complete at once, whatever the channel
\* holds, and the channel never holds more than one signal: a send that
\* finds the slot full does not queue.
C17_TriggerNeverBlocksNorQueues ==
    /\ resubscribeTrigger \in 0..ChannelCapacity
    /\ ENABLED triggerResubscribe

\* A second discovery found the signal of the first still buffered.
C17_Witness ==
    /\ dropped
    /\ resubscribeTrigger = ChannelCapacity
    /\ discCount = ResubDisc

\* C20: a configuration without a complete credential set never has a running
\* collection pass or an open subscription, and it never ends the process.
C20_InvalidConfigurationRejected ==
    \A c \in enabled \ credentialed :
        /\ collPc[c] = "idle"
        /\ subPc[c] = "down"
        /\ ~crashed

\* C21: once a configuration is disabled, its collection task is not started
\* again, and its subscription task, when it is between two messages, does
\* not take up another message (it stays waiting or exits): nothing is read
\* from or written to Exchange on its behalf any more.
C21_DisabledConfigurationStops ==
    [][\A c \in Configs :
         c \notin enabled =>
            /\ collPc[c] = "idle" => collPc'[c] = "idle"
            /\ subPc[c] = "down" => subPc'[c] = "down"
            /\ subPc[c] = "wait" => subPc'[c] \in {"wait", "down"}]_vars

\* C22: a collection pass enters the per-asset section (GetSyncState and
\* SyncFolderItems) only for rooms that are in the room list: the sync of a
\* room that was removed from it is suspended.
C22_RemovedRoomIsNotSynced ==
    [][\A c \in Configs :
         (HasRoomList /\ collPc[c] = "loop" /\ collPc'[c] = "sync") =>
             collIdx[c] \in roomList]_vars

\* C23: the store never shows part of an upsert: every booking_group row has
\* a booking_occurrence row.
C23_UpsertIsAllOrNothing ==
    \A r \in store.groups : \E o \in store.occurrences : o.uid = r.uid

\* C24: when the handling of a WebSocket cancellation of a whole booking has
\* ended, and the booking is one whose downstream id a collection pass got
\* back from its POST, CancelEvent has been called for it.
C24_CancellationOfPushedBookingReachesExchange ==
    \A c \in Configs :
        (h[c].kind = "cancel" /\ h[c].done /\ h[c].gid \in postedGids) =>
            h[c].cancelEvents >= 1

\* C25: a task whose next statement sends a request to Exchange (GetRooms in
\* discovery, SyncFolderItems in the per-asset section, CancelEvent,
\* CancelOccurrence and CreateItem in the write paths) holds the mutex.
C25_ExchangeRequestsUnderMutex ==
    \A c \in Configs :
        /\ collPc[c] \in {"discover", "sync"} => mu = Collection(c)
        /\ subPc[c] \in {"cancel", "cancelOccurrence", "create"} =>
               mu = Subscription(c)

\* C26: the merge of the groups collected for one UID from several rooms
\* never fails, the merged group has one occurrence per instance index, and
\* every RoomBooking of an occurrence is the item of its room for that
\* occurrence's instance index.
C26_MergeByInstanceIndex ==
    /\ ~crashed
    /\ \A c \in Configs : \A g \in toBook[c] :
          LET live == {i \in 1..Len(g.Occurrences) : ~g.Occurrences[i].Cancelled} IN
          /\ \A i, j \in live :
                g.Occurrences[i].InstanceIndex = g.Occurrences[j].InstanceIndex => i = j
          /\ \A i \in live : \A rb \in Range(g.Occurrences[i].RoomBookings) :
                rb.ExchangeID =
                   ItemId(g.ExchangeUID, rb.AssetID, g.Occurrences[i].InstanceIndex)

\* C27: a group collected for the push whose UID has a stored group carries
\* the stored downstream group id, and each of its occurrences whose
\* (group, instance index) has a stored row carries that row's downstream id.
C27_PushCarriesStoredIds ==
    \A c \in Configs : \A g \in toBook[c] :
        GetBookingGroupByExchangeUID(store, g.ExchangeUID) # 0 =>
            /\ g.ElionaID = GroupOf(store, g.ExchangeUID).egid
            /\ \A o \in Range(g.Occurrences) :
                  ~o.Cancelled =>
                     \A r \in GetBookingOccurrenceByGroupAndIndex(
                                  store, g.ExchangeUID, o.InstanceIndex) :
                        o.ElionaID = r.eid

\* The stored occurrence the room booking row of item id `item` belongs to
\* (none when no row carries the id).
OccurrenceOfItem(st, item) ==
    {o \in st.occurrences :
        \E rb \in st.roomBookings :
           rb.item = item /\ rb.uid = o.uid /\ rb.idx = o.idx}

RECURSIVE TargetedCancellations(_, _, _)
\* One cancellation per deleted item that a group owns: room a on the
\* occurrence of that item.
TargetedCancellations(st, a, items) ==
    IF items = <<>> THEN <<>>
    ELSE LET occ == OccurrenceOfItem(st, Head(items)) IN
         (IF occ = {} THEN <<>>
          ELSE <<[AssetID |-> a, ElionaID |-> (CHOOSE o \in occ : TRUE).eid]>>)
         \o TargetedCancellations(st, a, Tail(items))

C29_PushFailureKeepsTheRest ==
    [][\A c \in Configs :
         /\ collPc[c] = "book" =>
               Cardinality(toBook'[c]) >= Cardinality(toBook[c]) - 1
         /\ collPc[c] = "cancel" =>
               Len(cancelledBookings'[c]) >= Len(cancelledBookings[c]) - 1]_vars

\* C30: once the listener has handled a message whose group has several
\* occurrences of which at least one is cancelled, cancelOccurrenceInEWS has
\* been called for every cancelled occurrence of the group, and
\* createAppointment has not been called.
CancelledOccurrences(group) ==
    {i \in 1..Len(group.Occurrences) : group.Occurrences[i].Cancelled}
C30_EveryCancelledOccurrenceIsHandled ==
    \A c \in Configs :
        LET group == cur[c].group IN
        (h[c].done /\ Len(group.Occurrences) > 1
                   /\ CancelledOccurrences(group) # {}) =>
            /\ h[c].occCalls = CancelledOccurrences(group)
            /\ h[c].attempts = 0

\* C31: every DeleteItem that cancelOccurrence sends names the organizer's
\* event with the group's stored UID as master and, as InstanceIndex, the
\* instance index (>= 1) stored for the occurrence that has the message's
\* downstream occurrence id.
C31_DeleteNamesStoredInstance ==
    \A c \in Configs : \A d \in h[c].occDeletes :
        /\ d.uid = GetBookingGroupByElionaID(store, h[c].gid)
        /\ d.InstanceIndex >= 1
        /\ \A o \in GetBookingOccurrenceByElionaID(store, d.eid) :
              d.InstanceIndex = o.idx

\* The position of the first change of event u in room calendar f (0: none).
FirstChange(f, u) ==
    LET I == {i \in 1..Len(f) : f[i].uid = u}
    IN IF I = {} THEN 0 ELSE CHOOSE i \in I : \A j \in I : i <= j
\* Both events are new to the engine, and the response for room a that the
\* pass has consumed carried the change of u1 before the change of u2.
ReturnedBefore(a, u1, u2) ==
    /\ FirstChange(feed[a], u1) # 0
    /\ FirstChange(feed[a], u1) < FirstChange(feed[a], u2)
    /\ FirstChange(feed[a], u2) <= syncState[a]

\* C32: the groups of one pass are pushed in the order in which Exchange
\* returned their changes: when a new group is pushed, no new group of the
\* same room whose change came earlier in the response is still waiting.
C32_PushedInResponseOrder ==
    [][\A c \in Configs : \A g \in toBook[c] :
         (collPc[c] = "book" /\ faults = 0 /\ faults' = 0
            /\ toBook'[c] = toBook[c] \ {g} /\ g.ElionaID = 0) =>
             ~\E g2 \in toBook'[c] : \E a \in Assets :
                 /\ g2.ElionaID = 0
                 /\ a \in AllAssetsOf(g) \cap AllAssetsOf(g2)
                 /\ ReturnedBefore(a, g2.ExchangeUID, g.ExchangeUID)]_vars

\* The pass of c is pushing: booking.Book or booking.CancelSlice is running.
InPushPhase(c) == collPc[c] \in {"book", "cancel"}
\* The cookie stored for room a covers a change of event u of the given kinds.
CookieCovers(a, u, kinds) ==
    \E i \in 1..Len(feed[a]) :
        i <= syncState[a] /\ feed[a][i].uid = u /\ feed[a][i].kind \in kinds

\* C33: while a pass pushes, the cookie persisted for every room whose changes
\* it pushes already covers those changes (the created or updated items of
\* the groups, the deleted items of the cancellations); nothing is ever
\* pushed for a room whose new cookie was not persisted first.
C33_CookiePersistedBeforePush ==
    /\ pushed \subseteq consumed
    /\ \A c \in Configs : InPushPhase(c) =>
          /\ \A g \in toBook[c] : \A a \in AllAssetsOf(g) :
                /\ <<a, g.ExchangeUID>> \in consumed
                /\ CookieCovers(a, g.ExchangeUID, {"Create", "Update"})
          /\ \A i \in 1..Len(cancelledBookings[c]) :
                LET b == cancelledBookings[c][i]
                    S == {o.uid : o \in GetBookingOccurrenceByElionaID(store, b.ElionaID)}
                IN \A u \in S : CookieCovers(b.AssetID, u, {"Delete"})
\* A pass has pushed its first group and still has a group and a cancellation
\* to push.
C33_Witness ==
    \E c \in Configs :
        /\ collPc[c] = "book" /\ pushed # {}
        /\ toBook[c] # {} /\ cancelledBookings[c] # <<>>

\* The run of the listener of c has ended in good order: the connection is
\* closed, the stream was closed once and the subscription loop has returned.
ListenerEnded(c) ==
    /\ lsn[c].rd = "returned" /\ lsn[c].conn = "closed" /\ lsn[c].closes = 1
    /\ subPc[c] = "down"
\* Helpers of the listener of c that the reader has left in ReadMessage.
HelpersLeftBehind(c) == lsn[c].orphans

\* C34: the stream of a subscription is never closed twice and no group is
\* handed to the subscription loop after it was closed; once the context of a
\* subscription is cancelled, the connection and the stream are closed and the
\* subscription loop returns, and a read helper left behind by the reader
\* eventually ends.
C34_CancelledListenerShutsDown ==
    /\ [](\A c \in Configs : lsn[c].closes <= 1)
    /\ [][\A c \in Configs : cur'[c] # cur[c] => lsn[c].closes = 0]_vars
    /\ \A c \in Configs : (ctxCancelled[c] /\ subPc[c] # "down") ~> ListenerEnded(c)
    /\ \A c \in Configs : (HelpersLeftBehind(c) > 0) ~> (HelpersLeftBehind(c) = 0)

\* The index of the first answer that ends the expansion: the first one that
\* is neither a returned item nor a deleted occurrence.
RECURSIVE FirstStop(_, _)
FirstStop(x, i) ==
    IF AnswerTo(x, i) \in {"Success", "Deleted"} THEN FirstStop(x, i + 1) ELSE i

\* C35: expandRecurrence asks for the indices 1, 2, 3, ... in order and never
\* past the first answer that is out of range or an error; its items are the
\* indices answered with Success so far, in order, each tagged with the index
\* asked for; it ends exactly at that first answer, with those items when the
\* answer is out of range and with an error and no item on any other answer.
C35_ExpansionFollowsAnswers ==
    LET stop == FirstStop(xp, 1)
        succ(n) == SelectSeqBy([i \in 1..n |-> i],
                               {i \in 1..n : AnswerTo(xp, i) = "Success"})
    IN xp.state # "none" =>
        /\ xp.requested = [i \in 1..xp.instanceIndex |-> i]
        /\ xp.instanceIndex <= stop
        /\ (xp.state = "run") = (xp.instanceIndex < stop)
        /\ xp.state = "run" => xp.items = succ(xp.instanceIndex)
        /\ xp.state = "ok" => (AnswerTo(xp, stop) = "OutOfRange"
                                 /\ xp.items = succ(stop))
        /\ xp.state = "err" => (AnswerTo(xp, stop) # "OutOfRange"
                                  /\ xp.items = <<>>)
\* A recurrence of three positions whose second occurrence was deleted has
\* been expanded to the items 1 and 3.
C35_Witness ==
    /\ xp.state = "ok"
    /\ xp.answers = <<"Success", "Deleted", "Success">>
    /\ xp.items = <<1, 3>> /\ xp.instanceIndex = 4

\* C36: ews.CreateAppointment ends with ErrDeclined only when the search of
\* an attendee mailbox found no item with the UID of the new event.
C36_DeclinedOnlyWhenItemMissing ==
    [][\A c \in Configs :
         (subPc[c] = "settle" /\ h'[c].result = "declined") =>
             \E a \in Range(cur[c].emails) :
                 ItemId(cur[c].group.ExchangeUID, a, 0) \notin roomItems]_vars

\* C37: a change of the store leaves every stored room booking row as it is
\* (a stored resource event id stays attached to its occurrence), and it
\* concerns one group only: that group keeps its UID and organizer mailbox,
\* its occurrences keep their instance indices, and the group rows and
\* occurrence rows of all other groups are unchanged.
C37_UpsertKeepsIdentity ==
    [][store' # store =>
         \E U \in 0..MaxUID :
            /\ \A r \in store.roomBookings : r \in store'.roomBookings
            /\ \A r \in store'.roomBookings \ store.roomBookings : r.uid = U
            /\ \A r \in store.groups :
                  IF r.uid = U
                  THEN \E r2 \in store'.groups : r2.uid = U /\ r2.org = r.org
                  ELSE r \in store'.groups
            /\ \A r \in store'.groups :
                  /\ r.uid # U => r \in store.groups
                  /\ Cardinality({x \in store'.groups : x.uid = r.uid}) = 1
            /\ \A o \in store.occurrences :
                  IF o.uid = U
                  THEN \E o2 \in store'.occurrences : o2.uid = U /\ o2.idx = o.idx
                  ELSE o \in store'.occurrences
            /\ \A o \in store'.occurrences : o.uid # U => o \in store.occurrences]_vars
\* Three upserts have succeeded, two of them for the group of UID 1 (the
\* second met the stored group row) and one for the group of UID 2 with the
\* resource event id stored for UID 1: the store holds the one room booking
\* row, still attached to UID 1.
C37_Witness ==
    /\ {r.uid : r \in store.groups} = {1, 2}
    /\ {<<o.uid, o.idx>> : o \in store.occurrences} = {<<1, 1>>, <<1, 2>>, <<2, 1>>}
    /\ store.roomBookings = {[item |-> ItemId(1, 1, 1), uid |-> 1, idx |-> 1]}

\* C38: a collection pass of configuration c asks Exchange for the changes of
\* a room (SyncFolderItems with c's credentials) and stores the room's new
\* cookie only for rooms whose asset row belongs to c.
C38_PassStaysInItsConfiguration ==
    [][\A c \in Configs :
          LET a == collIdx[c] IN
          /\ (collPc[c] = "sync" /\ collPc'[c] = "assign") => ConfigurationOf(a) = c
          /\ (collPc[c] = "persist" /\ collPc'[c] # "persist"
                /\ syncState'[a] # syncState[a]) => ConfigurationOf(a) = c]_vars

\* C39: for a group about to be pushed that carries occurrences inferred as
\* cancelled, the store accepts the recording of the Booking response (no
\* statement of conf.UpsertBooking is rejected), so Book goes on with the
\* remaining groups.
C39_CancelledOccurrencesAreRecorded ==
    \A c \in Configs : \A g \in toBook[c] :
        (/\ collPc[c] = "book"
         /\ g.ElionaID # 0
         /\ \E o \in Range(g.Occurrences) : o.Cancelled) =>
            ~UpsertBooking(store, BookResponse(g, g.ElionaID), "none").err

\* C40: no goroutine waits on resubscribeTrigger for a subscription run that
\* has ended, and a signal leaves the channel only into the goroutine of a
\* subscription that is running, whose context it cancels.
C40_TriggerGoesToALiveSubscription ==
    /\ [](stale = 0)
    /\ [][resubscribeTrigger' < resubscribeTrigger =>
            \E c \in Configs : /\ subPc[c] # "down"
                               /\ listening[c] /\ ~listening'[c]
                               /\ ctxCancelled'[c]]_vars
====
